---- MODULE Spec2Model ----
(***************************************************************************)
(* Verification model of the fragile swarm engine.                         *)
(*                                                                         *)
(* Spec     : one Walkers instance (src/fragile/core/walkers.py) driven    *)
(*            by the swarm epoch loop: reset, policy sample, environment   *)
(*            transition, Walkers.balance (update_best, distances,         *)
(*            virtual reward, clone probabilities, clone), end condition,  *)
(*            fix_best.                                                    *)
(* SpecFMC  : the phase order of the swarm epoch loop for a plain swarm    *)
(*            and for the FMC outer swarm (src/fragile/algorithms/fmc.py), *)
(*            with the FMC policy vote and the EnvSwarm transition.        *)
(* SpecBatch: the parallel environment (src/fragile/distributed/env.py):   *)
(*            the main process, its workers and the pipes between them.    *)
(* Spec runs walkers that accumulate rewards, minimizing or maximizing;    *)
(* SpecRewards runs maximizing walkers with and without accumulation;      *)
(* SpecDefault runs walkers with the default parameters.                   *)
(* SpecCritic: the epoch of walkers with a critic attached, up to the      *)
(*            virtual rewards multiplied by the critic's score.            *)
(* SpecSwap : the BinarySwap model (src/old_fragile/core/models.py).       *)
(* SpecFixBest: Spec with a fix_best that may be called right after reset. *)
(* SpecVector: a Vector of src/fragile/optimize/encoder.py and its         *)
(*            assign_region; SpecEncoder: the encoder's list of vectors.   *)
(*                                                                         *)
(* Floating point columns are kept in fixed point: cum_rewards and rewards *)
(* are integers, clone_probs is in hundredths, virtual_rewards is in units *)
(* of 1/NWalkers. The infinite placeholder of the best record is Inf.      *)
(***************************************************************************)
EXTENDS Integers, Sequences, FiniteSets, TLC

\* ------------------------------------------------------------------------
\* Bounds
\* ------------------------------------------------------------------------
NWalkers == 3

MaxIters == 2

MaxWorkers == 3

\* messages the pipes may hold unread when a batch is requested
MaxUnread == 0

\* largest n_swaps of a BinarySwap model
MaxSwaps == 2

\* largest absolute coordinate of a point given to a Vector
MaxCoord == 1

\* largest n_vectors of an encoder
MaxVectors == 2

\* ------------------------------------------------------------------------
\* Program constants
\* ------------------------------------------------------------------------
Inf == 1000

ClipMax == 110

RewardScale == 1

DistScale == 1

\* _ExternalProcess message types
ACCESS == 1

CALL == 2

RESULT == 3

EXCEPTION == 4

CLOSE == 5

WalkerIx == 0 .. (NWalkers - 1)

Actions == 0 .. 1

RandomSamples == {0, 99}

None == -1

\* an argument that is not given (None), among arguments <<value>>
Absent == << >>

VARIABLES
    \* env_states
    states, observs, rewards, ends, terminals,
    \* model_states
    actions,
    \* StatesWalkers
    id_walkers, compas_clone, virtual_rewards, cum_rewards, distances,
    clone_probs, will_clone, alive_mask, end_condition,
    best_reward, best_obs, best_state,
    \* Walkers attributes, the stop flag and the position of the epoch loop
    minimize, accumulate_rewards, n_iters, stop, pc,
    \* FMC outer swarm (one walker) and the control state of its inner swarm
    o_pc, o_epoch, o_log, o_states, o_actions, o_rewards, o_scores, o_best,
    i_pc, i_epoch, i_log, i_actions, init_actions,
    \* parallel environment: the _BatchEnv in the main process
    b_nw, b_blocking, b_big, b_pc, b_k, b_in, b_data, b_out, b_closed,
    b_stale, b_inverted,
    \* its connections, and the _ExternalProcess workers
    p_open, to_worker, to_parent, w_alive, w_blocked, w_exc,
    \* the score written by an attached critic
    critic_score,
    \* BinarySwap model: n_swaps, the observs it reads and the actions it returns
    sw_pc, n_swaps, sw_observs, sw_actions,
    \* the last call of BinarySwap(...) and of ContinuousModel(...): the
    \* arguments and the exception raised
    sw_new, cm_new,
    \* a Vector, and the argument and the result of its last assign_region
    v_pc, v_vec, v_other, v_region,
    \* an encoder: n_vectors, its list of vectors, and its last call
    e_pc, n_vectors, e_vectors, e_call

envVars == <<states, observs, rewards, ends, terminals>>

bestVars == <<best_reward, best_obs, best_state>>

derivedVars == <<compas_clone, virtual_rewards, distances, clone_probs, will_clone, alive_mask>>

vars == <<states, observs, rewards, ends, terminals, actions, id_walkers, compas_clone,
          virtual_rewards, cum_rewards, distances, clone_probs, will_clone,
          alive_mask, end_condition, best_reward, best_obs, best_state,
          minimize, accumulate_rewards, n_iters, stop, pc,
          o_pc, o_epoch, o_log, o_states, o_actions, o_rewards, o_scores, o_best,
          i_pc, i_epoch, i_log, i_actions, init_actions,
          b_nw, b_blocking, b_big, b_pc, b_k, b_in, b_data, b_out, b_closed,
          b_stale, b_inverted, p_open, to_worker, to_parent, w_alive, w_blocked, w_exc,
          critic_score, sw_pc, n_swaps, sw_observs, sw_actions, sw_new, cm_new,
          v_pc, v_vec, v_other, v_region, e_pc, n_vectors, e_vectors, e_call>>

walkerVars == <<states, observs, rewards, ends, terminals, actions, id_walkers, compas_clone,
                virtual_rewards, cum_rewards, distances, clone_probs, will_clone,
                alive_mask, end_condition, best_reward, best_obs, best_state,
                minimize, accumulate_rewards, n_iters, stop, pc>>

outerVars == <<o_pc, o_epoch, o_log, o_states, o_actions, o_rewards, o_scores, o_best>>

innerVars == <<i_pc, i_epoch, i_log, i_actions, init_actions>>

fmcVars == <<outerVars, innerVars>>

mainVars == <<b_nw, b_blocking, b_big, b_pc, b_k, b_in, b_data, b_out, b_closed,
              b_stale, b_inverted, p_open>>

workerVars == <<w_alive, w_blocked, w_exc>>

batchVars == <<mainVars, workerVars, to_worker, to_parent>>

swapVars == <<sw_pc, n_swaps, sw_observs, sw_actions, sw_new, cm_new>>

vectorVars == <<v_pc, v_vec, v_other, v_region>>

encoderVars == <<e_pc, n_vectors, e_vectors, e_call>>

extraVars == <<critic_score, swapVars, vectorVars, encoderVars>>

\* ------------------------------------------------------------------------
\* Helpers on vectors
\* ------------------------------------------------------------------------
Const(v) == [i \in WalkerIx |-> v]

arange == [i \in WalkerIx |-> i]

Abs(x) == IF x < 0 THEN -x ELSE x

Max(S) == CHOOSE x \in S : \A y \in S : y <= x

Min(S) == CHOOSE x \in S : \A y \in S : x <= y

RECURSIVE Pow(_, _)
Pow(b, e) == IF e = 0 THEN 1 ELSE b * Pow(b, e - 1)

\* numpy argmax / argmin: the first index holding the maximum / minimum
argmax(v) == Min({i \in WalkerIx : \A j \in WalkerIx : v[j] <= v[i]})

argmin(v) == Min({i \in WalkerIx : \A j \in WalkerIx : v[i] <= v[j]})

\* floor of the square root
ISqrt(x) == CHOOSE r \in 0 .. 105 : r * r <= x /\ x < (r + 1) * (r + 1)

Clip(x, lo, hi) == IF x < lo THEN lo ELSE IF x > hi THEN hi ELSE x

\* ------------------------------------------------------------------------
\* Environment: a deterministic walk. Cell 0 is safe, cell 1 is the edge and
\* cell 2 is the pit, which is out of bounds. From cell 0 action a moves to
\* cell a; any action taken on the edge or in the pit ends in the pit. The
\* reward of a step is the action, and 0 inside the pit.
\* ------------------------------------------------------------------------
StartState == 0

Pit == 2

EnvNewState(s, a) == IF s = 0 THEN a ELSE Pit

EnvObserv(s) == 2 * s + 1

EnvReward(s, a) == IF s = Pit THEN 0 ELSE a

EnvOob(s) == s = Pit

\* the "win" entry of the infos returned by step_batch: the game is won on
\* the edge cell
EnvWin(s) == s = 1

\* DiscreteEnv.make_transitions: game_ends = [inf.get("win", False) ...]
game_ends(sts) == [i \in WalkerIx |-> EnvWin(sts[i])]

\* states_from_data called without terminals (terminals=None)
NoTerminals == << >>

\* Environment.states_from_data, the terminals column:
\* tensor(oobs) if terminals is not None else zeros(len(oobs))
states_from_data_terminals(oobs, terms) ==
    IF terms # NoTerminals THEN oobs ELSE [i \in WalkerIx |-> FALSE]

\* content hash of a state
Hash(s) == (s * 37 + 11) % 64

\* variant: the id of a walker is its index, not the hash of its state
ids_Index(sts) == [i \in WalkerIx |-> i]

ids(sts) == [i \in WalkerIx |-> Hash(sts[i])]

\* ------------------------------------------------------------------------
\* fragile.core.utils.relativize: all ones when the standard deviation is
\* zero, otherwise a strictly positive, strictly order preserving map. Only
\* the order of its output is used below, so the output is the dense rank.
\* ------------------------------------------------------------------------
relativize(x) ==
    [i \in WalkerIx |-> 1 + Cardinality({v \in {x[j] : j \in WalkerIx} : v < x[i]})]

\* np.random.permutation(np.arange(n)): the draws followed are the identity,
\* the rotation by one and the reversal
Perms ==
    {arange, [i \in WalkerIx |-> (i + 1) % NWalkers], [i \in WalkerIx |-> NWalkers - 1 - i]}

\* L2 distance of the (one dimensional) observations to a companion's
RawDistances(obs, compas_ix) == [i \in WalkerIx |-> Abs(obs[i] - obs[compas_ix[i]])]

\* SimpleWalkers.calculate_distances
calculate_distances(obs, compas_ix) == relativize(RawDistances(obs, compas_ix))

\* ------------------------------------------------------------------------
\* Walkers.calculate_virtual_reward: virt_rw = 2 - dist_prob ** reward_prob
\* with reward_prob = score_reward / sum and dist_prob = score_dist / sum,
\* both in (0, 1): virt_rw lies in [1, 2), it is strictly increasing in
\* score_reward and strictly decreasing in score_dist. The transcendental
\* value is not computed: the outcome is any vector of levels in [1, 2) that
\* respects this order, with equal levels exactly for walkers whose two
\* scores are equal. A walker with a higher reward score and a higher
\* distance score than another may end above or below it. Levels are in
\* units of 1 / NWalkers above 1.
\* ------------------------------------------------------------------------
VRUnit == NWalkers

\* the two scores of a walker
ScoreKey(sr, sd, i) == <<sr[i], sd[i]>>

ScoreKeys(sr, sd) == {ScoreKey(sr, sd, i) : i \in WalkerIx}

\* scores a give a strictly higher virtual reward than scores b
BetterScore(a, b) == a[1] >= b[1] /\ a[2] <= b[2] /\ a # b

\* the scores that need not lie above any other
Lowest(K) == {m \in K : \A x \in K : ~BetterScore(m, x)}

\* every ascending order of the scores K that respects BetterScore
RECURSIVE AscendingOrders(_)
AscendingOrders(K) ==
    IF K = {} THEN {<<>>}
    ELSE UNION {{<<m>> \o t : t \in AscendingOrders(K \ {m})} : m \in Lowest(K)}

LevelOf(order, k) == CHOOSE n \in 1 .. Len(order) : order[n] = k

EntropyVirtualRewards(sr, sd) ==
    {[i \in WalkerIx |-> VRUnit + LevelOf(order, ScoreKey(sr, sd, i)) - 1] :
        order \in AscendingOrders(ScoreKeys(sr, sd))}

\* variant: the rewards are not negated when minimizing
signed_rewards_Unsigned(cum, mini) == cum

signed_rewards(cum, mini) == [i \in WalkerIx |-> IF mini THEN -1 * cum[i] ELSE cum[i]]

score_reward(cum, mini) ==
    LET processed_rewards == relativize(signed_rewards(cum, mini))
    IN  [i \in WalkerIx |-> Pow(processed_rewards[i], RewardScale)]

score_dist(dist) == [i \in WalkerIx |-> Pow(dist[i], DistScale)]

\* ------------------------------------------------------------------------
\* SimpleWalkers.get_alive_compas / update_clone_probs
\* ------------------------------------------------------------------------
AliveIx(mask) == CHOOSE S \in SUBSET WalkerIx : \A i \in WalkerIx : i \in S <=> mask[i]

\* the p-th alive index, np.arange(n)[alive_mask][p]
NthAlive(alive, p) == CHOOSE a \in alive : Cardinality({b \in alive : b < a}) = p

\* variant: the first slots are not overwritten with the alive indexes
AliveCompas_NoFill(alive) == [WalkerIx -> alive]

\* choice(compas_ix, n, replace=True), then compas[:len(compas_ix)] = compas_ix
AliveCompas(alive) ==
    {[i \in WalkerIx |-> IF i < Cardinality(alive) THEN NthAlive(alive, i) ELSE c[i]] :
        c \in [Cardinality(alive) .. (NWalkers - 1) -> alive]}

get_alive_compas(mask) ==
    IF AliveIx(mask) = {} THEN {arange} ELSE AliveCompas(AliveIx(mask))

all_virtual_rewards_are_equal(vr) == \A i \in WalkerIx : vr[i] = vr[0]

\* variant: the relative advantage is neither clipped nor square-rooted
clone_prob_Raw(companion, vr) == (100 * (companion - vr)) \div vr

\* sqrt(clip((companion - vr) / vr, 0, 1.1)) in hundredths
clone_prob(companion, vr) ==
    ISqrt(100 * Clip((100 * (companion - vr)) \div vr, 0, ClipMax))

\* ------------------------------------------------------------------------
\* Clone gathers
\* ------------------------------------------------------------------------
\* variant: the gather copies row by row inside the column, last row first
RECURSIVE InPlaceGather(_, _, _, _)
InPlaceGather(col, clone, compas, i) ==
    IF i < 0 THEN col
    ELSE InPlaceGather(IF clone[i] THEN [col EXCEPT ![i] = col[compas[i]]] ELSE col,
                       clone, compas, i - 1)

StatesWalkers_clone_InPlace(col, clone, compas) ==
    InPlaceGather(col, clone, compas, NWalkers - 1)

\* variant: the gather ignores the will_clone mask
StatesWalkers_clone_NoMask(col, clone, compas) ==
    [i \in WalkerIx |-> col[compas[i]]]

\* variant: the column is replaced by the gathered rows of the cloning walkers
StatesWalkers_clone_Compress(col, clone, compas) ==
    [i \in {j \in WalkerIx : clone[j]} |-> col[compas[i]]]

\* variant: the companion's value is added to the cloning walker's own
StatesWalkers_clone_Add(col, clone, compas) ==
    [i \in WalkerIx |-> IF clone[i] THEN col[i] + col[compas[i]] ELSE col[i]]

\* StatesWalkers.clone: col[clone] = col[compas][clone]; the right hand side
\* is a fresh array built before the assignment
StatesWalkers_clone(col, clone, compas) ==
    [i \in WalkerIx |-> IF clone[i] THEN col[compas[i]] ELSE col[i]]

\* States.clone of the env and model tables (fragile.core.states)
States_clone(col, clone, compas) ==
    [i \in WalkerIx |-> IF clone[i] THEN col[compas[i]] ELSE col[i]]

\* variant: dead walkers are not forced to clone
sample_will_clone_NoDead(probs, u, endc) ==
    [i \in WalkerIx |-> probs[i] > u[i]]

\* variant: the draw is compared with >=
sample_will_clone_Geq(probs, u, endc) ==
    [i \in WalkerIx |-> IF endc[i] THEN TRUE ELSE probs[i] >= u[i]]

\* random_state.random_sample(n): one draw per walker; a draw that cannot
\* change will_clone (a dead walker's, or a probability on one side of every
\* sample) is taken as 0
random_sample(probs, endc) ==
    LET open == CHOOSE S \in SUBSET WalkerIx : \A i \in WalkerIx : i \in S <=>
                    /\ ~endc[i]
                    /\ \E a, b \in RandomSamples : probs[i] > a /\ ~(probs[i] > b)
    IN  {[i \in WalkerIx |-> IF i \in open THEN d[i] ELSE 0] : d \in [open -> RandomSamples]}

\* will_clone = clone_probs > random_sample(n); will_clone[dead_ix] = 1
sample_will_clone(probs, u, endc) ==
    [i \in WalkerIx |-> IF endc[i] THEN TRUE ELSE probs[i] > u[i]]

\* ------------------------------------------------------------------------
\* Walkers._get_best_index / update_best
\* ------------------------------------------------------------------------
alive_rewards(cum, endc) == {cum[i] : i \in {j \in WalkerIx : ~endc[j]}}

get_best_index(cum, endc, mini) ==
    IF alive_rewards(cum, endc) = {}
    THEN 0
    ELSE LET best == IF mini THEN Min(alive_rewards(cum, endc))
                     ELSE Max(alive_rewards(cum, endc))
             idx  == [i \in WalkerIx |-> IF cum[i] = best THEN 1 ELSE 0]
         IN  IF mini THEN argmin(idx) ELSE argmax(idx)

\* variant: any different candidate replaces the best record
has_improved_NotEqual(prior, candidate, mini) == prior # candidate

has_improved(prior, candidate, mini) ==
    IF mini THEN prior > candidate ELSE prior < candidate

\* variant: the candidate is stored without looking at its ends flag
best_is_alive_Always(e, ix) == TRUE

\* env_states.ends of the candidate (update_best)
best_is_alive(e, ix) == ~e[ix]

\* variant: update_best runs after the clone
balance_steps_BestLast == <<"balance", "update_best">>

\* Walkers.balance: update_best(), then SimpleWalkers.balance
balance_steps == <<"update_best", "balance">>

\* position of the run after step p of balance
StepAfter(p) ==
    LET k == CHOOSE n \in 1 .. Len(balance_steps) : balance_steps[n] = p
    IN  IF k < Len(balance_steps) THEN balance_steps[k + 1] ELSE "end_check"

\* variant: the iteration limit is compared with >
calculate_end_condition_Gt(endc, iters) ==
    Cardinality({i \in WalkerIx : endc[i]}) = NWalkers \/ iters > MaxIters

\* SimpleWalkers.calculate_end_condition
calculate_end_condition(endc, iters) ==
    LET all_dead  == Cardinality({i \in WalkerIx : endc[i]}) = NWalkers
        max_iters == iters >= MaxIters
    IN  all_dead \/ max_iters

\* variant: update_states adds the step rewards a second time
accumulate_and_update_rewards_Twice(cum, rwd) ==
    IF accumulate_rewards THEN [i \in WalkerIx |-> cum[i] + rwd[i] + rwd[i]] ELSE rwd

\* SimpleWalkers._accumulate_and_update_rewards
accumulate_and_update_rewards(cum, rwd) ==
    IF accumulate_rewards THEN [i \in WalkerIx |-> cum[i] + rwd[i]] ELSE rwd

\* ------------------------------------------------------------------------
\* State after construction
\* ------------------------------------------------------------------------
InitWalkers ==
    /\ states = Const(None) /\ observs = Const(None)
    /\ rewards = Const(0) /\ ends = Const(FALSE)
    /\ terminals = states_from_data_terminals(Const(FALSE), NoTerminals)
    /\ actions = Const(0)
    /\ id_walkers = Const(0) /\ compas_clone = Const(0)
    /\ virtual_rewards = Const(0) /\ cum_rewards = Const(0)
    /\ distances = Const(0) /\ clone_probs = Const(0)
    /\ will_clone = Const(FALSE) /\ alive_mask = Const(FALSE)
    /\ end_condition = Const(FALSE)
    /\ best_reward = -Inf /\ best_obs = None /\ best_state = None
    /\ minimize \in BOOLEAN
    /\ accumulate_rewards \in BOOLEAN
    /\ stop = FALSE
    /\ n_iters = 0
    /\ pc = "reset"

InitFMC ==
    /\ o_pc = "reset" /\ o_epoch = 0 /\ o_log = <<>>
    /\ o_states = None /\ o_actions = 0 /\ o_rewards = 0 /\ o_scores = 0
    /\ o_best = -Inf
    /\ i_pc = "idle" /\ i_epoch = 0 /\ i_log = <<>>
    /\ i_actions = Const(0) /\ init_actions = Const(0)

\* the workers of a _BatchEnv
WorkerIx == 0 .. (MaxWorkers - 1)

\* a data dictionary without rows
EmptyData == [states |-> <<>>, observs |-> <<>>]

\* no batch call has returned
NoResult == [kind |-> "none", data |-> EmptyData, trace |-> None]

\* before _ParallelEnvironment.__init__: no worker process exists
InitBatch ==
    /\ b_nw = 0 /\ b_blocking = FALSE /\ b_big = FALSE
    /\ b_pc = "new" /\ b_k = 0
    /\ b_in = Const(0) /\ b_data = <<>> /\ b_out = NoResult
    /\ b_closed = FALSE
    /\ b_stale = FALSE /\ b_inverted = FALSE
    /\ p_open = [w \in WorkerIx |-> FALSE]
    /\ to_worker = [w \in WorkerIx |-> <<>>]
    /\ to_parent = [w \in WorkerIx |-> <<>>]
    /\ w_alive = [w \in WorkerIx |-> FALSE]
    /\ w_blocked = [w \in WorkerIx |-> FALSE]
    /\ w_exc = [w \in WorkerIx |-> 0]

\* no critic score is written before a critic calculates one; the BinarySwap
\* model is not constructed yet
InitExtra ==
    /\ critic_score = Const(1)
    /\ sw_pc = "new" /\ n_swaps = 1
    /\ sw_observs = Const(None) /\ sw_actions = Const(None)
    /\ sw_new = [n_swaps |-> Absent, n_actions |-> Absent, env |-> Absent,
                 raised |-> "not called"]
    /\ cm_new = [bounds |-> Absent, env |-> Absent, raised |-> "not called",
                 self_bounds |-> Absent]
    /\ v_pc = "none" /\ v_vec = Absent /\ v_other = Absent /\ v_region = None
    /\ e_pc = "none" /\ n_vectors = 0 /\ e_vectors = << >>
    /\ e_call = [op |-> "none", before |-> << >>, arg |-> << >>, raised |-> "no"]

Init == InitWalkers /\ InitFMC /\ InitBatch /\ InitExtra

\* variant: reset leaves the accumulated rewards of the previous run
StatesWalkers_reset_KeepRewards ==
    [id_walkers |-> Const(0), compas_clone |-> arange, cum_rewards |-> cum_rewards,
     virtual_rewards |-> Const(VRUnit), distances |-> Const(0),
     clone_probs |-> Const(0), will_clone |-> Const(FALSE),
     alive_mask |-> Const(TRUE), end_condition |-> Const(FALSE)]

\* StatesWalkers.reset: the internal columns of a new run
StatesWalkers_reset ==
    [id_walkers |-> Const(0), compas_clone |-> arange, cum_rewards |-> Const(0),
     virtual_rewards |-> Const(VRUnit), distances |-> Const(0),
     clone_probs |-> Const(0), will_clone |-> Const(FALSE),
     alive_mask |-> Const(TRUE), end_condition |-> Const(FALSE)]

\* ------------------------------------------------------------------------
\* Swarm.reset: env.reset(N) then Walkers.reset
\* ------------------------------------------------------------------------
Reset ==
    /\ pc \in {"reset", "done"}
    /\ states' = Const(StartState)
    /\ observs' = Const(EnvObserv(StartState))
    /\ rewards' = Const(0)
    /\ ends' = Const(FALSE)
    /\ terminals' = states_from_data_terminals(ends', NoTerminals)
    /\ actions' = Const(0)
    /\ id_walkers' = StatesWalkers_reset.id_walkers
    /\ compas_clone' = StatesWalkers_reset.compas_clone
    /\ virtual_rewards' = StatesWalkers_reset.virtual_rewards
    /\ cum_rewards' = accumulate_and_update_rewards(StatesWalkers_reset.cum_rewards, rewards')
    /\ distances' = StatesWalkers_reset.distances
    /\ clone_probs' = StatesWalkers_reset.clone_probs
    /\ will_clone' = StatesWalkers_reset.will_clone
    /\ alive_mask' = StatesWalkers_reset.alive_mask
    /\ end_condition' = StatesWalkers_reset.end_condition
    /\ n_iters' = 0
    /\ LET ix == IF minimize THEN argmin(rewards') ELSE argmax(rewards')
       IN  /\ best_reward' = (IF minimize THEN Inf ELSE -Inf)
           /\ best_obs' = observs'[ix]
           /\ best_state' = states'[ix]
    /\ pc' = "policy"
    /\ stop' = FALSE
    /\ UNCHANGED <<minimize, accumulate_rewards, fmcVars, batchVars, extraVars>>

\* DiscreteUniform.sample: one action in [0, n_actions) per walker
Policy ==
    /\ pc = "policy"
    /\ \E a \in [WalkerIx -> Actions] : actions' = a
    /\ pc' = "env"
    /\ UNCHANGED <<envVars, id_walkers, derivedVars, cum_rewards, end_condition,
                   bestVars, minimize, accumulate_rewards, n_iters, stop, fmcVars, batchVars, extraVars>>

\* Swarm.step_walkers: env.make_transitions, then
\* walkers.update_states(env_states, end_condition=ends) and update_ids
EnvStep ==
    /\ pc = "env"
    /\ states' = [i \in WalkerIx |-> EnvNewState(states[i], actions[i])]
    /\ observs' = [i \in WalkerIx |-> EnvObserv(states'[i])]
    /\ rewards' = [i \in WalkerIx |-> EnvReward(states[i], actions[i])]
    /\ ends' = [i \in WalkerIx |-> EnvOob(states'[i])]
    /\ terminals' = states_from_data_terminals(ends', game_ends(states'))
    /\ end_condition' = ends'
    /\ cum_rewards' = accumulate_and_update_rewards(cum_rewards, rewards')
    /\ id_walkers' = ids(states')
    /\ pc' = balance_steps[1]
    /\ UNCHANGED <<actions, derivedVars, bestVars, minimize, accumulate_rewards, n_iters, stop, fmcVars, batchVars, extraVars>>

\* Walkers.balance, first statement: update_best
UpdateBest ==
    /\ pc = "update_best"
    /\ LET ix == get_best_index(cum_rewards, end_condition, minimize)
       IN  IF has_improved(best_reward, cum_rewards[ix], minimize) /\ best_is_alive(ends, ix)
           THEN /\ best_reward' = cum_rewards[ix]
                /\ best_state' = states[ix]
                /\ best_obs' = observs[ix]
           ELSE UNCHANGED bestVars
    /\ pc' = StepAfter("update_best")
    /\ UNCHANGED <<envVars, actions, id_walkers, derivedVars, cum_rewards,
                   end_condition, minimize, accumulate_rewards, n_iters, stop, fmcVars, batchVars, extraVars>>

\* SimpleWalkers.update_clone_probs: the companions and the clone
\* probabilities; alive_mask is written by get_alive_compas only
update_clone_probs(vr, endc, mask) ==
    IF all_virtual_rewards_are_equal(vr)
    THEN {[compas |-> arange, probs |-> Const(0), mask |-> mask]}
    ELSE LET alive == [i \in WalkerIx |-> ~endc[i]]
         IN  {[compas |-> c,
               probs  |-> [i \in WalkerIx |-> clone_prob(vr[c[i]], vr[i])],
               mask   |-> alive] : c \in get_alive_compas(alive)}

\* SimpleWalkers.balance: calculate_distances, calculate_virtual_reward
\* (Walkers' override, no critic attached), update_clone_probs, clone_walkers
Balance ==
    /\ pc = "balance"
    /\ \E dist \in {calculate_distances(observs, compas_dist) : compas_dist \in Perms} :
       \E sr \in {score_reward(cum_rewards, minimize)} :
       \E sd \in {score_dist(dist)} :
       \E vr \in EntropyVirtualRewards(sr, sd) :
       \E cp \in update_clone_probs(vr, end_condition, alive_mask) :
       \E clone \in {sample_will_clone(cp.probs, u, end_condition) :
                         u \in random_sample(cp.probs, end_condition)} :
         /\ distances' = dist
         /\ virtual_rewards' = vr
         /\ alive_mask' = cp.mask
         /\ compas_clone' = cp.compas
         /\ clone_probs' = cp.probs
         /\ will_clone' = clone
         /\ cum_rewards' = StatesWalkers_clone(cum_rewards, clone, cp.compas)
         /\ id_walkers' = StatesWalkers_clone(id_walkers, clone, cp.compas)
         /\ states' = States_clone(states, clone, cp.compas)
         /\ rewards' = States_clone(rewards, clone, cp.compas)
         /\ ends' = States_clone(ends, clone, cp.compas)
         /\ terminals' = States_clone(terminals, clone, cp.compas)
         /\ actions' = States_clone(actions, clone, cp.compas)
    /\ pc' = StepAfter("balance")
    /\ UNCHANGED <<observs, end_condition, bestVars, minimize, accumulate_rewards, n_iters, stop, fmcVars, batchVars, extraVars>>

\* the termination test of the run loop: the walkers' end condition, or the
\* stop flag that a callback may set
terminate(endc, iters, stp) == calculate_end_condition(endc, iters) \/ stp

\* Swarm.run_swarm: the after_evolve hooks run (a callback may set the stop
\* flag), then the loop continues while the termination test is false
NextEpoch ==
    /\ pc = "end_check"
    /\ stop' = FALSE
    /\ ~terminate(end_condition, n_iters + 1, stop')
    /\ n_iters' = n_iters + 1
    /\ pc' = "policy"
    /\ UNCHANGED <<envVars, actions, id_walkers, derivedVars, cum_rewards,
                   end_condition, bestVars, minimize, accumulate_rewards, fmcVars, batchVars, extraVars>>

Terminate ==
    /\ pc = "end_check"
    /\ \E cb \in BOOLEAN : stop' = cb
    /\ terminate(end_condition, n_iters + 1, stop')
    /\ n_iters' = n_iters + 1
    /\ pc' = "fix_best"
    /\ UNCHANGED <<envVars, actions, id_walkers, derivedVars, cum_rewards,
                   end_condition, bestVars, minimize, accumulate_rewards, fmcVars, batchVars, extraVars>>

\* variant: the best record is written into the first row
fix_best_row_First == Min(WalkerIx)

\* the row written by fix_best: index -1
fix_best_row == NWalkers - 1

\* Walkers.fix_best
FixBest ==
    /\ pc = "fix_best"
    /\ observs' = [observs EXCEPT ![fix_best_row] = best_obs]
    /\ cum_rewards' = [cum_rewards EXCEPT ![fix_best_row] = best_reward]
    /\ states' = [states EXCEPT ![fix_best_row] = best_state]
    /\ pc' = "done"
    /\ UNCHANGED <<rewards, ends, terminals, actions, id_walkers, derivedVars, end_condition,
                   bestVars, minimize, accumulate_rewards, n_iters, stop, fmcVars, batchVars, extraVars>>

\* Walkers.fix_best called on walkers that have been reset and have seen no
\* update_best yet: the best record is the one reset left
FixBestAfterReset ==
    /\ pc = "policy" /\ n_iters = 0
    /\ observs' = [observs EXCEPT ![fix_best_row] = best_obs]
    /\ cum_rewards' = [cum_rewards EXCEPT ![fix_best_row] = best_reward]
    /\ states' = [states EXCEPT ![fix_best_row] = best_state]
    /\ pc' = "done"
    /\ UNCHANGED <<rewards, ends, terminals, actions, id_walkers, derivedVars, end_condition,
                   bestVars, minimize, accumulate_rewards, n_iters, stop, fmcVars, batchVars, extraVars>>

Next ==
    \/ Reset
    \/ Policy
    \/ EnvStep
    \/ UpdateBest
    \/ Balance
    \/ NextEpoch
    \/ Terminate
    \/ FixBest

\* the run loop, and a caller that may pin the best record right after reset
NextFixBest ==
    \/ Next
    \/ FixBestAfterReset

\* walkers that accumulate the rewards (accumulate_rewards = True, the default)
InitAccumulate == Init /\ accumulate_rewards = TRUE

Spec == InitAccumulate /\ [][Next]_vars

SpecFixBest == InitAccumulate /\ [][NextFixBest]_vars

\* walkers that maximize, with and without accumulation of the rewards
InitMaximize == Init /\ minimize = FALSE

SpecRewards == InitMaximize /\ [][Next]_vars

\* walkers with the default parameters: minimize = False and
\* accumulate_rewards = True
InitDefault == InitMaximize /\ accumulate_rewards = TRUE

SpecDefault == InitDefault /\ [][Next]_vars

\* the positions that can follow position p of the run loop
PcAfter(p) ==
    CASE p = "reset"       -> {"policy"}
      [] p = "policy"      -> {"env"}
      [] p = "env"         -> {balance_steps[1]}
      [] p = "update_best" -> {StepAfter("update_best")}
      [] p = "balance"     -> {StepAfter("balance")}
      [] p = "end_check"   -> {"policy", "fix_best"}
      [] p = "fix_best"    -> {"done"}
      [] p = "done"        -> {"policy"}

\* every step of Next moves the run to a following position
Advance == pc' \in PcAfter(pc)

\* ------------------------------------------------------------------------
\* FMC composition (src/fragile/algorithms/fmc.py): the outer FMCSwarm has one
\* walker; its walkers phase runs the inner swarm to completion, its policy
\* votes on the inner walkers' first actions and its environment steps the
\* inner environment. The inner swarm is followed here through the phases
\* of its epoch loop and the actions it samples.
\* ------------------------------------------------------------------------
\* variant: the FMC swarm keeps the default phase order
FMCSwarm_walkers_last_Default == TRUE

\* FMCSwarm.walkers_last
FMCSwarm_walkers_last == FALSE

\* Swarm.walkers_last of a plain swarm
Swarm_walkers_last == TRUE

\* Swarm.run_epoch: the phases of one epoch in the order they run
PhaseOrder(walkers_last) ==
    IF walkers_last
    THEN <<"policy", "env", "walkers", "update_best", "callbacks">>
    ELSE <<"walkers", "policy", "env", "update_best", "callbacks">>

\* the phase that follows the phases already logged in this epoch
NextPhase(walkers_last, log) ==
    IF Len(log) < Len(PhaseOrder(walkers_last))
    THEN PhaseOrder(walkers_last)[Len(log) + 1]
    ELSE "end_check"

\* inner_swarm.env.action_space.n: the actions of the FMC's environment
n_actions == 3

FmcActions == 0 .. (n_actions - 1)

\* numpy.bincount(init_actions, minlength=n_actions)
bincount(init) == [a \in FmcActions |-> Cardinality({i \in WalkerIx : init[i] = a})]

\* variant: the last of the most used actions
choose_majority_Last(init) ==
    CHOOSE a \in FmcActions :
        /\ \A b \in FmcActions : bincount(init)[b] <= bincount(init)[a]
        /\ \A b \in FmcActions : bincount(init)[b] = bincount(init)[a] => b <= a

\* FMCPolicy._choose_majority: y.argmax() is the first index of the maximum
choose_majority(init) ==
    Min({a \in FmcActions : \A b \in FmcActions : bincount(init)[b] <= bincount(init)[a]})

\* EnvSwarm.make_transitions: scores is bound to the rewards array and then
\* added to in place
EnvSwarm_scores(new_rewards, old_scores) ==
    IF accumulate_rewards THEN new_rewards + old_scores ELSE new_rewards

EnvSwarm_rewards(new_rewards, old_scores) ==
    IF accumulate_rewards THEN new_rewards + old_scores ELSE new_rewards

\* WalkersSwarm.reset
FmcReset ==
    /\ o_pc = "reset"
    /\ o_states' = StartState
    /\ o_actions' = 0 /\ o_rewards' = 0 /\ o_scores' = 0
    /\ o_best' = -Inf
    /\ o_epoch' = 0
    /\ o_log' = <<>>
    /\ o_pc' = NextPhase(FMCSwarm_walkers_last, <<>>)
    /\ i_pc' = "idle"
    /\ UNCHANGED <<i_epoch, i_log, i_actions, init_actions, walkerVars, batchVars, extraVars>>

\* WalkersSwarm.run_epoch: inner_swarm.run(root_walker=outer state)
FmcWalkersStart ==
    /\ o_pc = "walkers" /\ i_pc = "idle"
    /\ i_pc' = "reset"
    /\ UNCHANGED <<outerVars, i_epoch, i_log, i_actions, init_actions, walkerVars, batchVars, extraVars>>

InnerReset ==
    /\ i_pc = "reset"
    /\ i_epoch' = 0
    /\ i_log' = <<>>
    /\ i_actions' = Const(0)
    /\ i_pc' = NextPhase(Swarm_walkers_last, <<>>)
    /\ UNCHANGED <<outerVars, init_actions, walkerVars, batchVars, extraVars>>

\* inner policy, and StoreInitAction on the first epoch
InnerPolicy ==
    /\ i_pc = "policy"
    /\ \E a \in [WalkerIx -> FmcActions] :
         /\ i_actions' = a
         /\ init_actions' = IF i_epoch = 0 THEN a ELSE init_actions
    /\ i_log' = Append(i_log, "policy")
    /\ i_pc' = NextPhase(Swarm_walkers_last, i_log')
    /\ UNCHANGED <<outerVars, i_epoch, walkerVars, batchVars, extraVars>>

\* inner environment transition
InnerEnv ==
    /\ i_pc = "env"
    /\ i_log' = Append(i_log, "env")
    /\ i_pc' = NextPhase(Swarm_walkers_last, i_log')
    /\ UNCHANGED <<outerVars, i_epoch, i_actions, init_actions, walkerVars, batchVars, extraVars>>

\* inner walkers balance
InnerWalkers ==
    /\ i_pc = "walkers"
    /\ i_log' = Append(i_log, "walkers")
    /\ i_pc' = NextPhase(Swarm_walkers_last, i_log')
    /\ UNCHANGED <<outerVars, i_epoch, i_actions, init_actions, walkerVars, batchVars, extraVars>>

\* inner best-so-far update
InnerUpdateBest ==
    /\ i_pc = "update_best"
    /\ i_log' = Append(i_log, "update_best")
    /\ i_pc' = NextPhase(Swarm_walkers_last, i_log')
    /\ UNCHANGED <<outerVars, i_epoch, i_actions, init_actions, walkerVars, batchVars, extraVars>>

\* inner after-epoch hooks
InnerCallbacks ==
    /\ i_pc = "callbacks"
    /\ i_log' = Append(i_log, "callbacks")
    /\ i_pc' = NextPhase(Swarm_walkers_last, i_log')
    /\ UNCHANGED <<outerVars, i_epoch, i_actions, init_actions, walkerVars, batchVars, extraVars>>

InnerNextEpoch ==
    /\ i_pc = "end_check"
    /\ i_epoch + 1 < MaxIters
    /\ i_epoch' = i_epoch + 1
    /\ i_log' = <<>>
    /\ i_pc' = NextPhase(Swarm_walkers_last, <<>>)
    /\ UNCHANGED <<outerVars, i_actions, init_actions, walkerVars, batchVars, extraVars>>

InnerEnd ==
    /\ i_pc = "end_check"
    /\ i_epoch + 1 >= MaxIters
    /\ i_epoch' = i_epoch + 1
    /\ i_pc' = "done"
    /\ UNCHANGED <<outerVars, i_log, i_actions, init_actions, walkerVars, batchVars, extraVars>>

\* the inner run has returned: the outer walkers phase is complete
FmcWalkersEnd ==
    /\ o_pc = "walkers" /\ i_pc = "done"
    /\ i_pc' = "idle"
    /\ o_log' = Append(o_log, "walkers")
    /\ o_pc' = NextPhase(FMCSwarm_walkers_last, o_log')
    /\ UNCHANGED <<o_epoch, o_states, o_actions, o_rewards, o_scores, o_best,
                   i_epoch, i_log, i_actions, init_actions, walkerVars, batchVars, extraVars>>

\* FMCPolicy.select_actions, discrete action space
FmcPolicy ==
    /\ o_pc = "policy"
    /\ o_actions' = choose_majority(init_actions)
    /\ o_log' = Append(o_log, "policy")
    /\ o_pc' = NextPhase(FMCSwarm_walkers_last, o_log')
    /\ UNCHANGED <<o_epoch, o_states, o_rewards, o_scores, o_best, innerVars, walkerVars, batchVars, extraVars>>

\* EnvSwarm.make_transitions
FmcEnv ==
    /\ o_pc = "env"
    /\ o_states' = EnvNewState(o_states, o_actions)
    /\ o_rewards' = EnvSwarm_rewards(EnvReward(o_states, o_actions), o_scores)
    /\ o_scores' = EnvSwarm_scores(EnvReward(o_states, o_actions), o_scores)
    /\ o_log' = Append(o_log, "env")
    /\ o_pc' = NextPhase(FMCSwarm_walkers_last, o_log')
    /\ UNCHANGED <<o_epoch, o_actions, o_best, innerVars, walkerVars, batchVars, extraVars>>

FmcUpdateBest ==
    /\ o_pc = "update_best"
    /\ o_best' = IF ~EnvOob(o_states) /\ has_improved(o_best, o_scores, FALSE)
                 THEN o_scores ELSE o_best
    /\ o_log' = Append(o_log, "update_best")
    /\ o_pc' = NextPhase(FMCSwarm_walkers_last, o_log')
    /\ UNCHANGED <<o_epoch, o_states, o_actions, o_rewards, o_scores, innerVars, walkerVars, batchVars, extraVars>>

\* Report.after_evolve and the other after-epoch hooks
FmcCallbacks ==
    /\ o_pc = "callbacks"
    /\ o_log' = Append(o_log, "callbacks")
    /\ o_pc' = NextPhase(FMCSwarm_walkers_last, o_log')
    /\ UNCHANGED <<o_epoch, o_states, o_actions, o_rewards, o_scores, o_best,
                   innerVars, walkerVars, batchVars, extraVars>>

FmcTerminated(st, epoch) == EnvOob(st) \/ epoch >= MaxIters

FmcNextEpoch ==
    /\ o_pc = "end_check"
    /\ ~FmcTerminated(o_states, o_epoch + 1)
    /\ o_epoch' = o_epoch + 1
    /\ o_log' = <<>>
    /\ o_pc' = NextPhase(FMCSwarm_walkers_last, <<>>)
    /\ UNCHANGED <<o_states, o_actions, o_rewards, o_scores, o_best, innerVars, walkerVars, batchVars, extraVars>>

FmcEnd ==
    /\ o_pc = "end_check"
    /\ FmcTerminated(o_states, o_epoch + 1)
    /\ o_epoch' = o_epoch + 1
    /\ o_pc' = "done"
    /\ UNCHANGED <<o_log, o_states, o_actions, o_rewards, o_scores, o_best,
                   innerVars, walkerVars, batchVars, extraVars>>

NextFMC ==
    \/ FmcReset
    \/ FmcWalkersStart
    \/ InnerReset
    \/ InnerPolicy
    \/ InnerEnv
    \/ InnerWalkers
    \/ InnerUpdateBest
    \/ InnerCallbacks
    \/ InnerNextEpoch
    \/ InnerEnd
    \/ FmcWalkersEnd
    \/ FmcPolicy
    \/ FmcEnv
    \/ FmcUpdateBest
    \/ FmcCallbacks
    \/ FmcNextEpoch
    \/ FmcEnd

\* the FMC maximizes: the outer best update is called with minimize = False
SpecFMC == InitMaximize /\ [][NextFMC]_vars

\* ------------------------------------------------------------------------
\* Parallel environment (src/fragile/distributed/env.py): a _BatchEnv in the
\* main process splits the inputs of make_transitions in chunks, sends one
\* CALL per _ExternalProcess over its pipe, reads the replies in the order of
\* the workers and concatenates them. Each worker polls its end of the pipe
\* and answers every message. A pipe is a FIFO queue in each direction.
\* ------------------------------------------------------------------------
\* an action outside the action space: the wrapped environment raises on it
BadAction == Cardinality(Actions)

BatchActions == Actions \cup {BadAction}

\* split_kwargs_in_chunks (fragile.core.utils): n_chunks contiguous chunks
\* of n div n_chunks rows, the last chunk taking the remainder as well
ChunkSize(n, nw) == n \div nw

ChunkStart(w, n, nw) == w * ChunkSize(n, nw)

ChunkEnd(w, n, nw) == IF w = nw - 1 THEN n ELSE (w + 1) * ChunkSize(n, nw)

split_inputs_in_chunks(in, nw) ==
    [w \in 0 .. (nw - 1) |->
        [j \in 1 .. (ChunkEnd(w, NWalkers, nw) - ChunkStart(w, NWalkers, nw)) |->
            in[ChunkStart(w, NWalkers, nw) + j - 1]]]

\* DiscreteEnv.make_transitions on the rows of a chunk, every walker being
\* at the start state: it raises on an action outside the action space
env_raises(chunk) == \E j \in 1 .. Len(chunk) : chunk[j] \notin Actions

env_make_transitions(chunk) ==
    [states  |-> [j \in 1 .. Len(chunk) |-> EnvNewState(StartState, chunk[j])],
     observs |-> [j \in 1 .. Len(chunk) |-> EnvObserv(EnvNewState(StartState, chunk[j]))]]

\* one environment executing all the inputs
serial_make_transitions(in) == env_make_transitions([j \in 1 .. NWalkers |-> in[j - 1]])

\* tensor.concatenate
RECURSIVE concatenate(_)
concatenate(seqs) == IF seqs = <<>> THEN <<>> ELSE Head(seqs) \o concatenate(Tail(seqs))

\* variant: only the first worker's rows are kept
merge_data_FirstOnly(data_dicts) == data_dicts[1]

\* _BatchEnv._merge_data
merge_data(data_dicts) ==
    [states  |-> concatenate([d \in 1 .. Len(data_dicts) |-> data_dicts[d].states]),
     observs |-> concatenate([d \in 1 .. Len(data_dicts) |-> data_dicts[d].observs])]

\* a message on a pipe: its type and its payload (the chunk of a CALL, the
\* data of a RESULT, the stack trace of an EXCEPTION, named by its worker)
Msg(t, chunk, data, trace) == [type |-> t, chunk |-> chunk, data |-> data, trace |-> trace]

\* variant: the worker loop goes on after the except clause
alive_after_raise_Continue == TRUE

\* _ExternalProcess._worker, except clause: conn.close() and the loop is left
alive_after_raise == FALSE

\* _ExternalProcess._worker, except clause: the stack trace is sent
worker_raise(w) ==
    [reply |-> <<Msg(EXCEPTION, <<>>, EmptyData, w)>>, alive |-> alive_after_raise]

\* variant: the worker acknowledges CLOSE with a RESULT before it leaves
worker_handle_AckClose(m, w) ==
    CASE m.type = ACCESS -> [reply |-> <<Msg(RESULT, <<>>, EmptyData, None)>>, alive |-> TRUE]
      [] m.type = CALL   -> IF env_raises(m.chunk)
                            THEN worker_raise(w)
                            ELSE [reply |-> <<Msg(RESULT, <<>>, env_make_transitions(m.chunk), None)>>,
                                  alive |-> TRUE]
      [] m.type = CLOSE  -> [reply |-> <<Msg(RESULT, <<>>, EmptyData, None)>>, alive |-> FALSE]
      [] OTHER           -> worker_raise(w)

\* _ExternalProcess._worker: the handling of one message by worker w, as the
\* reply it sends, if any, and whether its loop goes on
worker_handle(m, w) ==
    CASE m.type = ACCESS -> [reply |-> <<Msg(RESULT, <<>>, EmptyData, None)>>, alive |-> TRUE]
      [] m.type = CALL   -> IF env_raises(m.chunk)
                            THEN worker_raise(w)
                            ELSE [reply |-> <<Msg(RESULT, <<>>, env_make_transitions(m.chunk), None)>>,
                                  alive |-> TRUE]
      [] m.type = CLOSE  -> [reply |-> <<>>, alive |-> FALSE]
      [] OTHER           -> worker_raise(w)

\* variant: an EXCEPTION reply is returned like a RESULT
receive_raises_Never(m) == FALSE

\* _ExternalProcess._receive: an EXCEPTION reply is raised in the main process
receive_raises(m) == m.type = EXCEPTION

\* variant: without blocking the replies are read starting at the second worker
recv_index_Rotated(k, nw) == (k + 1) % nw

\* variant: the replies are read from the last worker to the first
recv_index_Reversed(k, nw) == nw - 1 - k

\* _BatchEnv._make_transitions: the k-th promise called is the k-th worker's
recv_index(k, nw) == k

\* conn.send raises when this end is closed or the worker has closed its end
can_send(w) == p_open[w] /\ w_alive[w]

\* the outcome of a call that raised, with the worker's stack trace if any
Raised(trace) == [kind |-> "error", data |-> EmptyData, trace |-> trace]

\* _ParallelEnvironment.__init__: n_workers processes are started, each
\* polling its end of a pipe; blocking is a constructor argument; b_big
\* tells whether a result of the environment exceeds the buffer of a pipe
StartWorkers ==
    /\ b_pc = "new"
    /\ \E nw \in 1 .. MaxWorkers, blk \in BOOLEAN, big \in BOOLEAN :
         /\ b_nw' = nw /\ b_blocking' = blk /\ b_big' = big
         /\ p_open' = [w \in WorkerIx |-> w < nw]
         /\ w_alive' = [w \in WorkerIx |-> w < nw]
    /\ b_pc' = "idle"
    /\ UNCHANGED <<b_k, b_in, b_data, b_out, b_closed, b_stale, b_inverted,
                   to_worker, to_parent, w_blocked, w_exc, walkerVars, fmcVars, extraVars>>

\* the messages that wait in the pipes, in either direction
Unread == concatenate([k \in 1 .. MaxWorkers |-> to_parent[k - 1] \o to_worker[k - 1]])

\* _BatchEnv.make_transitions is called with one action per walker
BatchCall ==
    /\ b_pc = "idle"
    /\ Len(Unread) <= MaxUnread
    /\ \E in \in [WalkerIx -> BatchActions] : b_in' = in
    /\ b_pc' = "send" /\ b_k' = 0
    /\ b_data' = <<>> /\ b_out' = NoResult
    /\ b_stale' = FALSE /\ b_inverted' = FALSE
    /\ UNCHANGED <<b_nw, b_blocking, b_big, b_closed, p_open, to_worker, to_parent,
                   workerVars, walkerVars, fmcVars, extraVars>>

\* _BatchEnv._make_transitions, env.make_transitions(blocking, chunk) for
\* each environment in turn: _ExternalProcess.call sends the CALL. A
\* blocking call reads the reply before the next worker is called; without
\* blocking the CALLs of all workers are sent, one after the other, before
\* any reply is read, and the first send that raises ends the loop. The
\* sends go to different pipes, so a step of a worker between two of them
\* has the effect of the same step before the first
BatchSend ==
    /\ b_pc = "send"
    /\ LET targets == b_k .. (IF b_blocking THEN b_k ELSE b_nw - 1)
           failing == {k \in targets : ~can_send(k)}
           sent    == {k \in targets : \A f \in failing : k < f}
       IN  /\ to_worker' = [w \in WorkerIx |->
                   IF w \in sent
                   THEN Append(to_worker[w],
                               Msg(CALL, split_inputs_in_chunks(b_in, b_nw)[w], EmptyData, None))
                   ELSE to_worker[w]]
           /\ IF failing = {}
              THEN /\ b_pc' = "recv"
                   /\ UNCHANGED <<b_out, b_k>>
              ELSE /\ b_out' = Raised(None)
                   /\ b_pc' = "returned"
                   /\ UNCHANGED b_k
    /\ UNCHANGED <<b_nw, b_blocking, b_big, b_in, b_data, b_closed, b_stale,
                   b_inverted, p_open, to_parent, workerVars, walkerVars, fmcVars, extraVars>>

\* the promise of the next worker is called: _ExternalProcess._receive waits
\* for the first unread message of the pipe; after the last reply the data
\* are merged
BatchRecv ==
    /\ b_pc = "recv"
    /\ LET w == IF b_blocking THEN b_k ELSE recv_index(b_k, b_nw)
       IN  /\ to_parent[w] # <<>>
           /\ to_parent' = [to_parent EXCEPT ![w] = Tail(@)]
           /\ w_blocked' = [w_blocked EXCEPT ![w] = @ /\ Len(to_parent[w]) > 1]
           /\ b_stale' = (b_stale \/ Len(to_parent[w]) + Len(to_worker[w]) > 1)
           /\ IF receive_raises(Head(to_parent[w]))
              THEN /\ b_out' = Raised(Head(to_parent[w]).trace)
                   /\ b_pc' = "returned"
                   /\ UNCHANGED <<b_data, b_k>>
              ELSE /\ b_data' = Append(b_data, Head(to_parent[w]).data)
                   /\ IF b_k = b_nw - 1
                      THEN /\ b_out' = [kind |-> "merged", data |-> merge_data(b_data'),
                                        trace |-> None]
                           /\ b_pc' = "returned"
                           /\ UNCHANGED b_k
                      ELSE /\ b_pc' = IF b_blocking THEN "send" ELSE "recv"
                           /\ b_k' = b_k + 1
                           /\ UNCHANGED b_out
    /\ UNCHANGED <<b_nw, b_blocking, b_big, b_in, b_closed, b_inverted, p_open,
                   to_worker, w_alive, w_exc, walkerVars, fmcVars, extraVars>>

\* the call returns to its caller, or raises
BatchReturn ==
    /\ b_pc = "returned"
    /\ b_pc' = "idle" /\ b_k' = 0
    /\ b_in' = Const(0) /\ b_data' = <<>> /\ b_out' = NoResult
    /\ b_stale' = FALSE /\ b_inverted' = FALSE
    /\ UNCHANGED <<b_nw, b_blocking, b_big, b_closed, p_open, to_worker,
                   to_parent, workerVars, walkerVars, fmcVars, extraVars>>

\* _BatchEnv.__getattr__: an attribute is requested from the first worker
\* (_ExternalProcess.__getattr__ sends ACCESS, then calls _receive)
AccessSend ==
    /\ b_pc = "idle"
    /\ IF can_send(0)
       THEN /\ to_worker' = [to_worker EXCEPT ![0] = Append(@, Msg(ACCESS, <<>>, EmptyData, None))]
            /\ b_pc' = "access"
            /\ UNCHANGED b_out
       ELSE /\ b_out' = Raised(None)
            /\ b_pc' = "returned"
            /\ UNCHANGED to_worker
    /\ UNCHANGED <<b_nw, b_blocking, b_big, b_k, b_in, b_data, b_closed, b_stale,
                   b_inverted, p_open, to_parent, workerVars, walkerVars, fmcVars, extraVars>>

AccessRecv ==
    /\ b_pc = "access"
    /\ to_parent[0] # <<>>
    /\ to_parent' = [to_parent EXCEPT ![0] = Tail(@)]
    /\ w_blocked' = [w_blocked EXCEPT ![0] = @ /\ Len(to_parent[0]) > 1]
    /\ b_stale' = (Len(to_parent[0]) + Len(to_worker[0]) > 1)
    /\ b_out' = IF receive_raises(Head(to_parent[0]))
                THEN Raised(Head(to_parent[0]).trace)
                ELSE [kind |-> "attr", data |-> Head(to_parent[0]).data, trace |-> None]
    /\ b_pc' = "returned"
    /\ UNCHANGED <<b_nw, b_blocking, b_big, b_k, b_in, b_data, b_closed,
                   b_inverted, p_open, to_worker, w_alive, w_exc, walkerVars, fmcVars, extraVars>>

\* _BatchEnv.close: every environment is closed in turn
Close ==
    /\ b_pc = "idle"
    /\ b_pc' = "close" /\ b_k' = 0
    /\ UNCHANGED <<b_nw, b_blocking, b_big, b_in, b_data, b_out, b_closed,
                   b_stale, b_inverted, p_open, to_worker, to_parent, workerVars,
                   walkerVars, fmcVars, extraVars>>

\* _ExternalProcess.close: CLOSE is sent and the connection closed; an
\* IOError of either is swallowed
CloseSend ==
    /\ b_pc = "close"
    /\ to_worker' = IF can_send(b_k)
                    THEN [to_worker EXCEPT ![b_k] = Append(@, Msg(CLOSE, <<>>, EmptyData, None))]
                    ELSE to_worker
    /\ p_open' = [p_open EXCEPT ![b_k] = FALSE]
    /\ b_pc' = "join"
    /\ UNCHANGED <<b_nw, b_blocking, b_big, b_k, b_in, b_data, b_out, b_closed,
                   b_stale, b_inverted, to_parent, workerVars, walkerVars, fmcVars, extraVars>>

\* _ExternalProcess.close: self._process.join() returns once the worker
\* process has exited
CloseJoin ==
    /\ b_pc = "join"
    /\ ~w_alive[b_k]
    /\ IF b_k = b_nw - 1
       THEN b_pc' = "idle" /\ b_k' = 0 /\ b_closed' = TRUE
       ELSE b_pc' = "close" /\ b_k' = b_k + 1 /\ UNCHANGED b_closed
    /\ UNCHANGED <<b_nw, b_blocking, b_big, b_in, b_data, b_out, b_stale,
                   b_inverted, p_open, to_worker, to_parent, workerVars, walkerVars, fmcVars, extraVars>>

\* _ExternalProcess._worker: one turn of the loop of worker w. conn.send of
\* a result larger than the buffer of the pipe returns only when the main
\* process reads it: until then the worker is blocked
WorkerStep(w) ==
    /\ w_alive[w] /\ ~w_blocked[w]
    /\ to_worker[w] # <<>>
    /\ LET m == Head(to_worker[w])
           h == worker_handle(m, w)
       IN  /\ to_worker' = [to_worker EXCEPT ![w] = Tail(@)]
           /\ to_parent' = [to_parent EXCEPT ![w] = @ \o h.reply]
           /\ w_alive' = [w_alive EXCEPT ![w] = h.alive]
           /\ w_exc' = [w_exc EXCEPT ![w] =
                   @ + Len(SelectSeq(h.reply, LAMBDA r : r.type = EXCEPTION))]
           /\ w_blocked' = [w_blocked EXCEPT ![w] =
                   b_big /\ m.type = CALL /\ ~env_raises(m.chunk)]
           /\ b_inverted' = (b_inverted \/ (m.type = CALL /\ \E v \in 0 .. (w - 1) :
                                                to_worker[v] # <<>>))
    /\ UNCHANGED <<b_nw, b_blocking, b_big, b_pc, b_k, b_in, b_data, b_out,
                   b_closed, b_stale, p_open, walkerVars, fmcVars, extraVars>>

NextBatch ==
    \/ StartWorkers
    \/ BatchCall
    \/ BatchSend
    \/ BatchRecv
    \/ BatchReturn
    \/ AccessSend
    \/ AccessRecv
    \/ Close
    \/ CloseSend
    \/ CloseJoin
    \/ \E w \in WorkerIx : WorkerStep(w)

\* the parameters of the walkers play no part in the parallel environment
SpecBatch == InitDefault /\ [][NextBatch]_vars

\* ------------------------------------------------------------------------
\* Walkers with a critic attached: Walkers.calculate_virtual_reward
\* multiplies the virtual rewards by critic_score. The balance is followed
\* up to that product.
\* ------------------------------------------------------------------------
\* the scores a critic may write for a walker (Critic.calculate)
CriticScores == {-1, 0, 1, 2}

\* virt_rew = self.states.virtual_rewards * self.states.critic_score
apply_critic(vr, score) == [i \in WalkerIx |-> vr[i] * score[i]]

CriticVirtualReward ==
    /\ pc = "balance"
    /\ \E dist \in {calculate_distances(observs, compas_dist) : compas_dist \in Perms} :
       \E vr \in EntropyVirtualRewards(score_reward(cum_rewards, minimize), score_dist(dist)) :
       \E score \in [WalkerIx -> CriticScores] :
         /\ distances' = dist
         /\ critic_score' = score
         /\ virtual_rewards' = apply_critic(vr, score)
    /\ pc' = "virtual_reward"
    /\ UNCHANGED <<envVars, actions, id_walkers, compas_clone, cum_rewards, clone_probs,
                   will_clone, alive_mask, end_condition, bestVars, minimize,
                   accumulate_rewards, n_iters, stop, fmcVars, batchVars, swapVars,
                   vectorVars, encoderVars>>

NextCritic ==
    \/ Reset
    \/ Policy
    \/ EnvStep
    \/ UpdateBest
    \/ CriticVirtualReward

SpecCritic == InitAccumulate /\ [][NextCritic]_vars

\* ------------------------------------------------------------------------
\* BinarySwap (src/old_fragile/core/models.py): a model whose actions are
\* the observs, a vector of n_actions bits per walker, with the bits at
\* n_swaps randomly drawn positions negated.
\* ------------------------------------------------------------------------
DimIx == 0 .. (n_actions - 1)

BitVectors == [DimIx -> {0, 1}]

\* the observs of a walker: no bit set, or the first bit set
SwapObservs == {[d \in DimIx |-> 0], [d \in DimIx |-> IF d = 0 THEN 1 ELSE 0]}

\* judo.astype(actions, dtype.bool), read back as an integer
astype_bool(row) == [d \in DimIx |-> IF row[d] # 0 THEN 1 ELSE 0]

\* random_state.randint(0, n_actions, size=n_swaps): the draws of one walker
Flips(n) == [1 .. n -> DimIx]

\* flip_values, one row: actions[flips[j]] = logical_not(actions[flips[j]])
\* for j in turn
RECURSIVE flip_values(_, _, _)
flip_values(row, flips, j) ==
    IF j > Len(flips) THEN row
    ELSE flip_values([row EXCEPT ![flips[j]] = 1 - row[flips[j]]], flips, j + 1)

\* the rows BinarySwap.sample may return for a walker
sample_rows(obs, n) == {flip_values(astype_bool(obs), f, 1) : f \in Flips(n)}

\* the values an n_swaps argument takes: None, or an integer
SwapsArgs == {Absent} \cup {<<k>> : k \in -1 .. MaxSwaps}

\* the values an n_actions argument takes, and the env argument: None, or an
\* environment whose n_actions is the dimension of the rows
ActionsArgs == {Absent, <<n_actions>>}

\* DiscreteModel.__init__(n_actions, critic, env)
DiscreteModel_init(n_act, env) ==
    IF n_act = Absent /\ env = Absent
    THEN [raised |-> "ValueError", n_actions |-> None]
    ELSE [raised |-> "no",
          n_actions |-> IF n_act = Absent THEN env[1] ELSE n_act[1]]

\* BinarySwap.__init__(n_swaps, n_actions, critic, env): after the
\* constructor of DiscreteModel, `if n_swaps <= 0: raise ValueError`, where
\* the comparison of None with an integer raises TypeError, and only then
\* the replacement of None by n_actions
BinarySwap_init(n_sw, n_act, env) ==
    LET base == DiscreteModel_init(n_act, env)
    IN  IF base.raised # "no" THEN [raised |-> base.raised, n_swaps |-> None]
        ELSE IF n_sw = Absent THEN [raised |-> "TypeError", n_swaps |-> None]
        ELSE IF n_sw[1] <= 0 THEN [raised |-> "ValueError", n_swaps |-> None]
        ELSE [raised |-> "no",
              n_swaps |-> IF n_sw # Absent THEN n_sw[1] ELSE base.n_actions]

\* BinarySwap(...): a call that raises builds no model; the new model has
\* sampled nothing yet
BinarySwapInit ==
    /\ sw_pc \in {"new", "sampled"}
    /\ \E n_sw \in SwapsArgs, n_act \in ActionsArgs, env \in ActionsArgs :
         LET new == BinarySwap_init(n_sw, n_act, env)
         IN  /\ sw_new' = [n_swaps |-> n_sw, n_actions |-> n_act, env |-> env,
                             raised |-> new.raised]
             /\ sw_pc' = IF new.raised = "no" THEN "ready" ELSE "new"
             /\ n_swaps' = IF new.raised = "no" THEN new.n_swaps ELSE n_swaps
    /\ sw_observs' = Const(None) /\ sw_actions' = Const(None)
    /\ UNCHANGED <<cm_new, critic_score, walkerVars, fmcVars, batchVars,
                   vectorVars, encoderVars>>

\* the env argument of ContinuousModel: None, an environment without a
\* bounds attribute, one whose bounds is None, one with a Bounds
BoundsEnvs == {Absent, <<"no attribute">>, <<"None">>, <<"Bounds">>}

\* the bounds argument of ContinuousModel: None or a Bounds
BoundsArgs == {Absent, <<"Bounds">>}

\* env.bounds: raises when env is None or has no such attribute
env_bounds(env) ==
    IF env = Absent \/ env = <<"no attribute">> THEN [raised |-> "AttributeError", value |-> Absent]
    ELSE [raised |-> "no", value |-> IF env = <<"None">> THEN Absent ELSE env]

\* ContinuousModel.__init__(bounds, critic, env)
ContinuousModel_init(bounds, env) ==
    IF bounds # Absent THEN [raised |-> "no", self_bounds |-> bounds]
    ELSE IF env_bounds(env).raised # "no"
    THEN [raised |-> "ValueError", self_bounds |-> Absent]
    ELSE [raised |-> "no", self_bounds |-> env_bounds(env).value]

\* ContinuousModel(...)
ContinuousModelInit ==
    /\ \E bounds \in BoundsArgs, env \in BoundsEnvs :
         LET new == ContinuousModel_init(bounds, env)
         IN  cm_new' = [bounds |-> bounds, env |-> env, raised |-> new.raised,
                        self_bounds |-> new.self_bounds]
    /\ UNCHANGED <<sw_pc, n_swaps, sw_observs, sw_actions, sw_new,
                   critic_score, walkerVars, fmcVars, batchVars,
                   vectorVars, encoderVars>>

\* the batches BinarySwap.sample may return: one of the rows of every walker
\* from walker i on, in a sequence
RECURSIVE sample_batches(_, _, _)
sample_batches(obs, rows, i) ==
    IF i = NWalkers THEN {<<>>}
    ELSE {<<r>> \o t : r \in rows[obs[i]], t \in sample_batches(obs, rows, i + 1)}

\* BinarySwap.sample(batch_size, env_states)
BinarySwapSample ==
    /\ sw_pc = "ready"
    /\ \E rows \in {[o \in SwapObservs |-> sample_rows(o, n_swaps)]} :
       \E obs \in [WalkerIx -> SwapObservs] :
       \E batch \in sample_batches(obs, rows, 0) :
         /\ sw_observs' = obs
         /\ sw_actions' = [i \in WalkerIx |-> batch[i + 1]]
    /\ sw_pc' = "sampled"
    /\ UNCHANGED <<n_swaps, sw_new, cm_new, critic_score, walkerVars, fmcVars, batchVars,
                   vectorVars, encoderVars>>

NextSwap ==
    \/ BinarySwapInit
    \/ BinarySwapSample
    \/ ContinuousModelInit

SpecSwap == InitDefault /\ [][NextSwap]_vars

\* ------------------------------------------------------------------------
\* Vector (src/fragile/optimize/encoder.py)
\* ------------------------------------------------------------------------
\* the points given as origin, end and other: integer arrays of two
\* coordinates, as in the tests
Points == (-MaxCoord .. MaxCoord) \X (-MaxCoord .. MaxCoord)

\* a - b on arrays
np_sub(a, b) == [i \in DOMAIN a |-> a[i] - b[i]]

\* np.dot(a, b) of two arrays of one axis: the sum of the products of the
\* coordinates from i on
RECURSIVE np_dot_from(_, _, _)
np_dot_from(a, b, i) ==
    IF i > Len(a) THEN 0 ELSE a[i] * b[i] + np_dot_from(a, b, i + 1)

np_dot(a, b) == np_dot_from(a, b, 1)

\* Vector.__init__(origin, end): base is computed once, here
Vector_init(origin, end) ==
    [origin |-> origin, end |-> end, base |-> np_sub(end, origin),
     age |-> 0, last_regions |-> << >>]

\* Vector.scalar_product(other)
Vector_scalar_product(self, other) == np_dot(self.base, np_sub(self.end, other))

\* a region that is 1 also for a zero product
Vector_assign_region_Geq(self, other) ==
    [region |-> IF Vector_scalar_product(self, other) >= 0 THEN 1 ELSE 0,
     self |-> self]

\* Vector.assign_region(other): the region returned and the vector after
\* the call (no attribute is assigned)
Vector_assign_region(self, other) ==
    [region |-> IF Vector_scalar_product(self, other) > 0 THEN 1 ELSE 0,
     self |-> self]

\* Vector(origin=..., end=...)
VectorInit ==
    /\ v_pc = "none"
    /\ \E origin \in Points, end \in Points : v_vec' = Vector_init(origin, end)
    /\ v_pc' = "built"
    /\ UNCHANGED <<v_other, v_region, encoderVars, critic_score, swapVars,
                   walkerVars, fmcVars, batchVars>>

\* vector.assign_region(other)
VectorAssignRegion ==
    /\ v_pc \in {"built", "assigned"}
    /\ \E other \in Points :
         LET res == Vector_assign_region(v_vec, other)
         IN  /\ v_other' = other
             /\ v_region' = res.region
             /\ v_vec' = res.self
    /\ v_pc' = "assigned"
    /\ UNCHANGED <<encoderVars, critic_score, swapVars, walkerVars, fmcVars, batchVars>>

NextVector ==
    \/ VectorInit
    \/ VectorAssignRegion

SpecVector == InitDefault /\ [][NextVector]_vars

\* ------------------------------------------------------------------------
\* The encoder's list of vectors (src/fragile/optimize/encoder.py)
\* ------------------------------------------------------------------------
\* PesteVector.__init__(origin=..., end=...): a Vector with two counters
PesteVector_init(origin, end) ==
    [origin |-> origin, end |-> end, base |-> np_sub(end, origin),
     age |-> 0, last_regions |-> << >>, front_value |-> 0, back_value |-> 0]

\* the (origin, end) pairs given to the encoder
EncoderArgs == {<< <<0, 0>>, <<1, 0>> >>, << <<0, 0>>, <<0, 1>> >>}

\* the vectors given to append_vector
EncoderVectors ==
    {Vector_init(a[1], a[2]) : a \in EncoderArgs}
        \cup {PesteVector_init(a[1], a[2]) : a \in EncoderArgs}

\* lst[1:]
py_rest(lst) == SubSeq(lst, 2, Len(lst))

\* lst[:-1] = values
py_assign_but_last(lst, values) ==
    IF Len(lst) = 0 THEN values ELSE values \o <<lst[Len(lst)]>>

\* lst[-1] = value: an IndexError on an empty list
py_assign_last(lst, value) ==
    IF Len(lst) = 0 THEN [vectors |-> lst, raised |-> "IndexError"]
    ELSE [vectors |-> [lst EXCEPT ![Len(lst)] = value], raised |-> "no"]

\* an append_vector that overwrites the last vector of a full list without
\* moving the others
append_vector_KeepOldest(vectors, n, vector) ==
    IF Len(vectors) < n
    THEN [vectors |-> Append(vectors, vector), raised |-> "no"]
    ELSE py_assign_last(vectors, vector)

\* __Encoder.append_vector(vector) on the list vectors of an encoder with
\* n_vectors = n; copy.deepcopy returns equal vectors
append_vector(vectors, n, vector) ==
    IF Len(vectors) < n
    THEN [vectors |-> Append(vectors, vector), raised |-> "no"]
    ELSE py_assign_last(py_assign_but_last(vectors, py_rest(vectors)), vector)

\* __Encoder(n_vectors)
EncoderInit ==
    /\ e_pc = "none"
    /\ n_vectors' \in 0 .. MaxVectors
    /\ e_vectors' = << >>
    /\ e_pc' = "ready"
    /\ UNCHANGED <<e_call, vectorVars, critic_score, swapVars, walkerVars, fmcVars, batchVars>>

\* encoder.append(origin=..., end=...)
EncoderAppend ==
    /\ e_pc = "ready"
    /\ \E a \in EncoderArgs :
         LET vector == PesteVector_init(a[1], a[2])
             res == append_vector(e_vectors, n_vectors, vector)
         IN  /\ e_vectors' = res.vectors
             /\ e_call' = [op |-> "append", before |-> e_vectors, arg |-> <<vector>>,
                            raised |-> res.raised]
    /\ UNCHANGED <<e_pc, n_vectors, vectorVars, critic_score, swapVars,
                   walkerVars, fmcVars, batchVars>>

\* encoder.append_vector(vector)
EncoderAppendVector ==
    /\ e_pc = "ready"
    /\ \E vector \in EncoderVectors :
         LET res == append_vector(e_vectors, n_vectors, vector)
         IN  /\ e_vectors' = res.vectors
             /\ e_call' = [op |-> "append_vector", before |-> e_vectors,
                            arg |-> <<vector>>, raised |-> res.raised]
    /\ UNCHANGED <<e_pc, n_vectors, vectorVars, critic_score, swapVars,
                   walkerVars, fmcVars, batchVars>>

\* the lists of (origin, end) pairs given to update_bases
BasesLists == UNION {[1 .. k -> EncoderArgs] : k \in 0 .. MaxVectors}

\* np.random.choice(np.arange(n_vec), k, replace=False): k different
\* indices in any order
random_choice(n_vec, k) ==
    {c \in [1 .. k -> 1 .. n_vec] : \A i, j \in 1 .. k : c[i] = c[j] => i = j}

\* the loop of update_bases over chosen_vectors from its j-th index on
RECURSIVE update_bases_loop(_, _, _, _, _)
update_bases_loop(res, n, bases, chosen, j) ==
    IF j > Len(chosen) \/ res.raised # "no" THEN res
    ELSE update_bases_loop(
             append_vector(res.vectors, n,
                           PesteVector_init(bases[chosen[j]][1], bases[chosen[j]][2])),
             n, bases, chosen, j + 1)

\* min(a, b)
py_min(a, b) == IF b < a THEN b ELSE a

\* encoder.update_bases(vectors)
EncoderUpdateBases ==
    /\ e_pc = "ready"
    /\ \E bases \in BasesLists :
         LET n_vec == Len(bases)
             available_spaces == py_min(n_vectors - Len(e_vectors), n_vec)
         IN  IF available_spaces > 0
             THEN \E chosen \in random_choice(n_vec, available_spaces) :
                    LET res == update_bases_loop([vectors |-> e_vectors, raised |-> "no"],
                                                 n_vectors, bases, chosen, 1)
                    IN  /\ e_vectors' = res.vectors
                        /\ e_call' = [op |-> "update_bases", before |-> e_vectors,
                                       arg |-> [j \in 1 .. available_spaces |->
                                                  PesteVector_init(bases[chosen[j]][1],
                                                                   bases[chosen[j]][2])],
                                       raised |-> res.raised]
             ELSE /\ e_vectors' = e_vectors
                  /\ e_call' = [op |-> "update_bases", before |-> e_vectors,
                                 arg |-> << >>, raised |-> "no"]
    /\ UNCHANGED <<e_pc, n_vectors, vectorVars, critic_score, swapVars,
                   walkerVars, fmcVars, batchVars>>

NextEncoder ==
    \/ EncoderInit
    \/ EncoderAppend
    \/ EncoderAppendVector
    \/ EncoderUpdateBases

SpecEncoder == InitDefault /\ [][NextEncoder]_vars

\* ------------------------------------------------------------------------
\* Claims
\* ------------------------------------------------------------------------
AllEqual(v) == \A i, j \in WalkerIx : v[i] = v[j]

AfterBalance == pc = "end_check"

SomeAlive == \E i \in WalkerIx : ~end_condition[i]

\* C1: every walker that clones holds, after clone_walkers, the states,
\* actions, cum_rewards and id_walkers its companion compas_clone[i] held
\* before the clone, also when that companion clones in the same call.
C1_CloneReadsPreCloneValues ==
    [][pc = "balance" =>
        \A i \in WalkerIx : will_clone'[i] =>
            /\ states'[i] = states[compas_clone'[i]]
            /\ actions'[i] = actions[compas_clone'[i]]
            /\ cum_rewards'[i] = cum_rewards[compas_clone'[i]]
            /\ id_walkers'[i] = id_walkers[compas_clone'[i]]]_vars

\* a walker has cloned from a companion that itself cloned from a third
\* walker holding a different score
C1_Witness ==
    /\ AfterBalance
    /\ \E i \in WalkerIx :
        LET j == compas_clone[i]
        IN  /\ will_clone[i] /\ will_clone[j]
            /\ j # i /\ compas_clone[j] # j
            /\ cum_rewards[i] # cum_rewards[j]

\* C2: after balance every walker that is out of bounds has will_clone set,
\* whatever its clone probability and the random draw.
C2_DeadAlwaysClone ==
    AfterBalance => \A i \in WalkerIx : end_condition[i] => will_clone[i]

C2_Witness ==
    /\ AfterBalance
    /\ \E i \in WalkerIx : end_condition[i] /\ clone_probs[i] = 0 /\ will_clone[i]

\* C3: whenever a walker is alive, after balance every out-of-bounds walker
\* has been overwritten from a companion of the alive set.
C3_DeadCloneFromAlive ==
    (AfterBalance /\ SomeAlive) =>
        \A i \in WalkerIx : end_condition[i] =>
            /\ ~end_condition[compas_clone[i]]
            /\ ~ends[i]

\* C4: when all cum_rewards are equal and all distances are equal, the
\* walkers that clone in balance are exactly the out-of-bounds walkers.
C4_EqualScoresCloneOnlyDead ==
    [][(pc = "balance" /\ AllEqual(cum_rewards) /\ AllEqual(distances')) =>
        \A i \in WalkerIx : will_clone'[i] = end_condition[i]]_vars

C4_Witness ==
    /\ AfterBalance
    /\ AllEqual(cum_rewards) /\ AllEqual(distances)
    /\ compas_clone = arange
    /\ SomeAlive
    /\ \E i \in WalkerIx : end_condition[i]
    /\ will_clone = end_condition

C6_BestRewardMonotone ==
    [][pc \notin {"reset", "done"} =>
        IF minimize THEN best_reward' <= best_reward
        ELSE best_reward' >= best_reward]_vars

\* second epoch of a maximizing run in which every walker came from the
\* safe cell with score 0 and one of them has just raised the record to 1
C6_Witness ==
    /\ ~minimize /\ n_iters = 1 /\ pc = "balance"
    /\ \A i \in WalkerIx : ~end_condition[i]
    /\ best_reward = 1

\* C7: the candidate of _get_best_index is an alive walker whose cum_rewards
\* is the maximum over the alive walkers, the minimum when minimizing.
C7_CandidateIsBestAlive ==
    (pc = "update_best" /\ SomeAlive) =>
        LET ix == get_best_index(cum_rewards, end_condition, minimize)
        IN  /\ ~end_condition[ix]
            /\ \A j \in WalkerIx : ~end_condition[j] =>
                 IF minimize THEN cum_rewards[ix] <= cum_rewards[j]
                 ELSE cum_rewards[ix] >= cum_rewards[j]

\* C8: update_best stores only the record of a walker that is not out of
\* bounds, and changes nothing when no walker is alive.
C8_BestNeverFromDead ==
    [][pc = "update_best" =>
        /\ (<<best_reward, best_obs, best_state>>' # <<best_reward, best_obs, best_state>> =>
              \E i \in WalkerIx :
                 /\ ~ends[i]
                 /\ best_reward' = cum_rewards[i]
                 /\ best_state' = states[i]
                 /\ best_obs' = observs[i])
        /\ ((\A i \in WalkerIx : ends[i]) =>
              <<best_reward, best_obs, best_state>>' = <<best_reward, best_obs, best_state>>)]_vars

\* update_best has run with every walker out of bounds, the first of them
\* holding a score above the record
C8_Witness ==
    /\ pc = StepAfter("update_best")
    /\ \A i \in WalkerIx : ends[i]
    /\ ~minimize /\ cum_rewards[0] > best_reward

IsPrefix(s, t) == Len(s) <= Len(t) /\ \A k \in 1 .. Len(s) : s[k] = t[k]

Logged(log, phase) == \E k \in 1 .. Len(log) : log[k] = phase

C11_EndConditionCoversStop ==
    pc = "fix_best" => calculate_end_condition(end_condition, n_iters)

\* C11 amended: every run terminates: no position of the run loop blocks,
\* every step moves to a following position of the loop, every end check
\* counts one more epoch and the epoch counter never exceeds max_iters, so
\* that the end of the run is reached after at most max_iters checks. The
\* loop stops at a check exactly when all walkers are out of bounds, the
\* counter has reached max_iters or the stop flag is set;
\* calculate_end_condition is true exactly in the first two cases and does
\* not look at the stop flag.
C11_Terminates ==
    /\ [](n_iters <= MaxIters)
    /\ [][pc = "end_check" =>
            /\ (pc' = "fix_best") <=>
                  \/ \A i \in WalkerIx : end_condition[i]
                  \/ n_iters' >= MaxIters
                  \/ stop'
            /\ (pc' = "policy") <=> (pc' # "fix_best")
            /\ n_iters' = n_iters + 1
            /\ calculate_end_condition(end_condition, n_iters') <=>
                  \/ \A i \in WalkerIx : end_condition[i]
                  \/ n_iters' >= MaxIters]_vars
    /\ [](ENABLED Next)
    /\ [][Advance]_vars

\* a callback has stopped the run before the iteration limit, with a walker
\* still in bounds
C11_Witness ==
    /\ pc = "fix_best" /\ stop
    /\ n_iters < MaxIters
    /\ SomeAlive

\* C12: an environment transition leaves in cum_rewards[i] the previous
\* cum_rewards[i] plus the step reward rewards[i] when accumulate_rewards is
\* set, and the step reward alone when it is not: the step reward is added
\* once.
C12_RewardsAddedOnce ==
    [][pc = "env" =>
        \A i \in WalkerIx :
            /\ rewards'[i] = EnvReward(states[i], actions[i])
            /\ accumulate_rewards => cum_rewards'[i] - cum_rewards[i] = rewards'[i]
            /\ ~accumulate_rewards => cum_rewards'[i] = rewards'[i]]_vars

\* the second transition of a run has added a reward of 1 to a walker that
\* already held 1
C12_Witness ==
    /\ pc = balance_steps[1] /\ n_iters = 1
    /\ accumulate_rewards
    /\ \E i \in WalkerIx : rewards[i] = 1 /\ cum_rewards[i] = 2

\* the worker whose reply the main process reads next
CurrentWorker == IF b_blocking THEN b_k ELSE recv_index(b_k, b_nw)

\* the main process has read the first unread message of worker w's pipe
ReadFrom(w) == to_parent[w] # <<>> /\ to_parent'[w] = Tail(to_parent[w])

\* the batch call is about to return a merged result
ReturnsMerged == b_pc = "returned" /\ b_out.kind = "merged"

\* the batch call is about to raise a worker's stack trace
ReturnsWorkerError == b_pc = "returned" /\ b_out.kind = "error" /\ b_out.trace \in WorkerIx

\* C13: whatever the number of workers, a batch make_transitions that
\* returns returns, for every column, the vector of length N that one
\* environment returns for the same inputs: row i is the result of walker i.
C13_BatchEqualsSerial ==
    ReturnsMerged =>
        /\ b_out.data = serial_make_transitions(b_in)
        /\ Len(b_out.data.states) = NWalkers
        /\ Len(b_out.data.observs) = NWalkers
        /\ \A i \in WalkerIx :
              /\ b_out.data.states[i + 1] = EnvNewState(StartState, b_in[i])
              /\ b_out.data.observs[i + 1] = EnvObserv(EnvNewState(StartState, b_in[i]))

\* a batch of walkers with different actions has been merged from chunks of
\* different sizes
C13_Witness ==
    /\ ReturnsMerged
    /\ b_nw > 1 /\ NWalkers % b_nw # 0
    /\ \E i, j \in WalkerIx : b_in[i] # b_in[j]

\* C14: in the merged result the rows of worker w's chunk stand at the
\* positions of that chunk in the inputs, which depend on w, N and the
\* number of workers only: this holds in every order in which the workers
\* complete.
C14_PositionByWorkerIndex ==
    ReturnsMerged =>
        \A w \in 0 .. (b_nw - 1) :
            LET first == ChunkStart(w, NWalkers, b_nw)
                last  == ChunkEnd(w, NWalkers, b_nw)
                rows  == env_make_transitions(split_inputs_in_chunks(b_in, b_nw)[w])
            IN  /\ SubSeq(b_out.data.states, first + 1, last) = rows.states
                /\ SubSeq(b_out.data.observs, first + 1, last) = rows.observs

\* a worker has completed before a worker of lower index, and the chunks of
\* the first and of the last worker give different rows
C14_Witness ==
    /\ ReturnsMerged
    /\ b_inverted
    /\ b_nw = NWalkers
    /\ b_in[0] # b_in[NWalkers - 1]

\* C15: when the reply read from a worker is an EXCEPTION, the batch call
\* ends at once by raising an error that carries that worker's stack trace
\* and no data; a merged result is returned only when no chunk made its
\* worker raise.
C15_ExceptionFailsBatch ==
    /\ [][(b_pc = "recv" /\ ReadFrom(CurrentWorker)
             /\ Head(to_parent[CurrentWorker]).type = EXCEPTION)
          => (/\ b_pc' = "returned"
              /\ b_out' = [kind |-> "error", data |-> EmptyData, trace |-> CurrentWorker])]_vars
    /\ [](ReturnsMerged =>
            \A w \in 0 .. (b_nw - 1) : ~env_raises(split_inputs_in_chunks(b_in, b_nw)[w]))
    /\ [](b_pc = "returned" /\ b_out.kind = "error" => b_out.data = EmptyData)

\* the batch fails on the exception of a worker after the result of another
\* worker had been read
C15_Witness ==
    /\ ReturnsWorkerError
    /\ b_data # <<>>

\* C16 as stated: after a batch call has failed on a worker's EXCEPTION, no
\* pipe holds a request not yet answered or a reply not yet read.
C16_NoUnreadAfterFailure ==
    ReturnsWorkerError =>
        \A w \in WorkerIx : to_parent[w] = <<>> /\ to_worker[w] = <<>>

\* C17: when the environment raises in a worker, the worker appends one
\* EXCEPTION message with its stack trace to its pipe and leaves its loop;
\* a worker that has left its loop reads no message and sends none; no
\* worker sends more than one EXCEPTION; a message of unknown type is
\* handled like a raising call.
C17_OneExceptionThenExit ==
    /\ [][\A w \in WorkerIx :
            /\ (/\ w_alive[w] /\ to_worker[w] # <<>>
                /\ to_worker'[w] = Tail(to_worker[w])
                /\ Head(to_worker[w]).type = CALL
                /\ env_raises(Head(to_worker[w]).chunk))
               => /\ to_parent'[w] = Append(to_parent[w], Msg(EXCEPTION, <<>>, EmptyData, w))
                  /\ ~w_alive'[w]
            /\ (b_pc # "new" /\ ~w_alive[w])
               => /\ ~w_alive'[w]
                  /\ Len(to_worker'[w]) >= Len(to_worker[w])
                  /\ Len(to_parent'[w]) <= Len(to_parent[w])]_vars
    /\ [](\A w \in WorkerIx : w_exc[w] <= 1)
    /\ [](\A w \in WorkerIx : \A t \in (0 .. 7) \ {ACCESS, CALL, CLOSE} :
            worker_handle(Msg(t, <<>>, EmptyData, None), w) =
                [reply |-> <<Msg(EXCEPTION, <<>>, EmptyData, w)>>, alive |-> FALSE])

\* a worker has sent its EXCEPTION and left its loop with a message unread
\* in its pipe
C17_Witness ==
    \E w \in WorkerIx :
        /\ w_exc[w] = 1 /\ ~w_alive[w]
        /\ to_worker[w] # <<>>

\* C18 as stated: close() returns: while it runs, the main process or a
\* worker can always take a step.
C18_CloseReturns ==
    b_pc \in {"close", "join"} => ENABLED NextBatch

\* the number of inner walkers whose initial action is a
VotesFor(a) == Cardinality({i \in WalkerIx : init_actions[i] = a})

\* C19: the FMC policy returns an action of [0, n_actions) that no action
\* beats in the number of inner walkers whose initial action it is, and
\* that has more such walkers than every action of lower number: the most
\* voted action, the lowest-numbered one on a tie.
C19_MajorityVote ==
    [][o_pc = "policy" =>
          /\ o_actions' \in 0 .. (n_actions - 1)
          /\ \A b \in 0 .. (n_actions - 1) :
                /\ VotesFor(b) <= VotesFor(o_actions')
                /\ b < o_actions' => VotesFor(b) < VotesFor(o_actions')]_vars

\* the policy has chosen between actions with the same, highest, number of
\* votes
C19_Witness ==
    /\ o_pc = "env"
    /\ \E b \in FmcActions :
          /\ b > o_actions
          /\ VotesFor(b) = VotesFor(o_actions)

\* C20 as stated: after EnvSwarm.make_transitions the scores column is the
\* step reward plus the previous scores when rewards are accumulated (the
\* step reward otherwise) and the rewards column is the step reward.
C20_RewardsStayPerStep ==
    [][o_pc = "env" =>
          /\ o_scores' = EnvReward(o_states, o_actions)
                            + (IF accumulate_rewards THEN o_scores ELSE 0)
          /\ o_rewards' = EnvReward(o_states, o_actions)]_vars

\* C21: after a balance whose virtual rewards are not all equal, with a
\* walker alive, every companion compas_clone[i] is alive, the first
\* |alive| slots of compas_clone hold the alive indexes in increasing order
\* and so every alive walker appears in compas_clone.
C21_CompanionsCoverAlive ==
    (AfterBalance /\ SomeAlive /\ ~AllEqual(virtual_rewards)) =>
        LET alive == {i \in WalkerIx : ~end_condition[i]}
        IN  /\ \A i \in WalkerIx : compas_clone[i] \in alive
            /\ \A a \in alive : \E i \in WalkerIx : compas_clone[i] = a
            /\ \A p \in 0 .. (Cardinality(alive) - 1) :
                  /\ compas_clone[p] \in alive
                  /\ Cardinality({b \in alive : b < compas_clone[p]}) = p

\* companions were sampled among two alive walkers, one of them not the
\* first walker, for a swarm with a walker out of bounds
C21_Witness ==
    /\ AfterBalance /\ ~AllEqual(virtual_rewards)
    /\ Cardinality({i \in WalkerIx : ~end_condition[i]}) = NWalkers - 1
    /\ end_condition[0]
    /\ compas_clone[NWalkers - 1] # compas_clone[0]

\* C22: in every state of the run (after reset, policy sampling,
\* environment transition, balance with its clone, and fix_best) every
\* column of the walkers, environment and model tables has one entry per
\* walker, N entries in all.
C22_ColumnsHaveLengthN ==
    LET columns == <<states, observs, rewards, ends, terminals, actions, id_walkers,
                     compas_clone, virtual_rewards, cum_rewards, distances,
                     clone_probs, will_clone, alive_mask, end_condition>>
    IN  \A k \in 1 .. Len(columns) : DOMAIN columns[k] = WalkerIx

\* a run has ended with fix_best after a balance in which some walker, but
\* not every walker, cloned
C22_Witness ==
    /\ pc = "done" /\ n_iters > 0
    /\ \E i, j \in WalkerIx : will_clone[i] /\ ~will_clone[j]
    /\ Cardinality(DOMAIN cum_rewards) = NWalkers
    /\ Cardinality(DOMAIN states) = NWalkers

\* C23: right after an environment transition and right after a clone (up
\* to the next change of the states), id_walkers[i] is the content hash of
\* states[i] for every walker i.
C23_IdsAreStateHashes ==
    pc \in {"update_best", "balance", "end_check"} =>
        \A i \in WalkerIx : id_walkers[i] = Hash(states[i])

\* a walker has just cloned the state and the id of another walker whose
\* state differs from the state of a walker that did not clone
C23_Witness ==
    /\ AfterBalance
    /\ \E i, j \in WalkerIx :
          /\ will_clone[i] /\ compas_clone[i] # i /\ ~will_clone[j]
          /\ states[i] = states[compas_clone[i]]
          /\ states[i] # states[j]
          /\ id_walkers[i] = Hash(states[i])
          /\ id_walkers[i] # id_walkers[j]

\* C24: after every balance, alive_mask[i] is the negation of the
\* out-of-bounds flag of walker i that the balance worked with
\* (end_condition), whether the virtual rewards were all equal or not.
C24_AliveMaskIsNotOobs ==
    AfterBalance => \A i \in WalkerIx : alive_mask[i] = ~end_condition[i]

\* C25: after a transition the terminals column holds, for every walker,
\* the terminal (win) flag the environment reported for it, whatever its
\* out-of-bounds flag.
C25_TerminalsAreReportedFlags ==
    pc = "update_best" => \A i \in WalkerIx : terminals[i] = EnvWin(states[i])

\* C26: a reset leaves every walker with the same starting state and
\* observation, cum_rewards 0, oobs false, will_clone false, clone_probs 0,
\* distances 0 and the iteration counter 0, and the best record holds the
\* state and the observation of a walker of maximal rewards (minimal when
\* minimizing).
C26_ResetState ==
    [][(pc \in {"reset", "done"}) =>
        ((\A i \in WalkerIx :
              /\ states'[i] = StartState /\ observs'[i] = EnvObserv(StartState)
              /\ cum_rewards'[i] = 0 /\ ~ends'[i] /\ ~will_clone'[i]
              /\ clone_probs'[i] = 0 /\ distances'[i] = 0)
         /\ (n_iters' = 0)
         /\ (\E ix \in WalkerIx :
              /\ \A j \in WalkerIx : (IF minimize THEN rewards'[ix] <= rewards'[j]
                                                  ELSE rewards'[ix] >= rewards'[j])
              /\ best_state' = states'[ix] /\ best_obs' = observs'[ix]))]_vars

\* a swarm that minimizes has just been reset
C26_Witness ==
    /\ pc = "policy" /\ n_iters = 0 /\ minimize
    /\ cum_rewards = Const(0) /\ ends = Const(FALSE)
    /\ will_clone = Const(FALSE)
    /\ best_state = StartState /\ best_obs = EnvObserv(StartState)

C29_HigherRewardHigherVirtualReward ==
    [][(pc = "balance") =>
        (\A a, b \in WalkerIx :
            (cum_rewards[a] > cum_rewards[b] /\ distances'[a] = distances'[b]) =>
                virtual_rewards'[a] >= virtual_rewards'[b])]_vars

\* C29 (amended): for walkers a and b of equal distance with cum_rewards[a]
\* strictly higher than cum_rewards[b] and no critic attached,
\* virtual_rewards[a] >= virtual_rewards[b] when maximizing and
\* virtual_rewards[a] <= virtual_rewards[b] when minimizing.
C29_VirtualRewardFollowsSignedReward ==
    [][(pc = "balance") =>
        (\A a, b \in WalkerIx :
            (cum_rewards[a] > cum_rewards[b] /\ distances'[a] = distances'[b]) =>
                (IF minimize THEN virtual_rewards'[a] <= virtual_rewards'[b]
                             ELSE virtual_rewards'[a] >= virtual_rewards'[b]))]_vars

\* a minimizing swarm after a balance: of two walkers that did not clone
\* and have equal distances, the one with the higher cum_rewards has the
\* strictly lower virtual reward
C29_Witness ==
    /\ AfterBalance /\ minimize
    /\ \E a, b \in WalkerIx :
          /\ ~will_clone[a] /\ ~will_clone[b]
          /\ cum_rewards[a] > cum_rewards[b]
          /\ distances[a] = distances[b]
          /\ virtual_rewards[a] < virtual_rewards[b]

\* C28: after calculate_virtual_reward every virtual_rewards[i] is
\* positive, also when a critic is attached and the virtual rewards have
\* been multiplied by its critic_score.
C28_VirtualRewardsPositive ==
    pc = "virtual_reward" => \A i \in WalkerIx : virtual_rewards[i] > 0

\* C30: BinarySwap.sample returns for every walker the observs bit vector
\* with exactly n_swaps coordinates flipped: the Hamming distance between
\* the returned row and the observs is n_swaps.
C30_ExactlyNSwapsFlipped ==
    sw_pc = "sampled" =>
        \A i \in WalkerIx :
            Cardinality({d \in DimIx : sw_actions[i][d] # sw_observs[i][d]}) = n_swaps

\* C33: after update_best no alive walker has cum_rewards strictly better
\* than best_reward (greater when maximizing, smaller when minimizing).
C33_NoAliveWalkerBeatsBest ==
    pc = StepAfter("update_best") =>
        \A i \in WalkerIx :
            ~end_condition[i] => ~has_improved(best_reward, cum_rewards[i], minimize)

\* C36: fix_best writes the best record into walker N-1 only: afterwards
\* states[N-1], observs[N-1] and cum_rewards[N-1] are best_state, best_obs
\* and best_reward; every column of walkers 0..N-2, the other columns of
\* walker N-1 and the best record are unchanged.
C36_FixBestFrame ==
    [][(pc = "fix_best") =>
        (/\ states'[NWalkers - 1] = best_state
         /\ observs'[NWalkers - 1] = best_obs
         /\ cum_rewards'[NWalkers - 1] = best_reward
         /\ \A i \in 0 .. (NWalkers - 2) :
               /\ states'[i] = states[i] /\ observs'[i] = observs[i]
               /\ cum_rewards'[i] = cum_rewards[i]
         /\ <<rewards, ends, terminals, actions, id_walkers, derivedVars, end_condition>>'
               = <<rewards, ends, terminals, actions, id_walkers, derivedVars, end_condition>>
         /\ <<best_reward, best_obs, best_state>>' = <<best_reward, best_obs, best_state>>)]_vars

\* fix_best has overwritten the state of the last walker (its id is no
\* longer the hash of its state) with a best record that differs from the
\* state of another walker
C36_Witness ==
    /\ pc = "done"
    /\ states[NWalkers - 1] = best_state /\ cum_rewards[NWalkers - 1] = best_reward
    /\ id_walkers[NWalkers - 1] # Hash(states[NWalkers - 1])
    /\ \E i \in 0 .. (NWalkers - 2) : states[i] # best_state

\* C37: in every reachable state, the states after a fix_best that ran
\* before any update_best stored a walker included, the cum_rewards of every
\* walker are finite, never the infinite placeholder of an empty best
\* record (such a fix_best leaves the table as it was).
C37_CumRewardsFinite ==
    \A i \in WalkerIx : cum_rewards[i] # Inf /\ cum_rewards[i] # -Inf

\* C38: balance creates no walker: the set of ids after the clone is a
\* subset of the set of ids before it (new_ids and old_ids of the pair that
\* balance returns), and every state after the clone is the state some
\* walker had before it.
C38_CloneCreatesNoWalker ==
    [][(pc = "balance") =>
        (/\ {id_walkers'[i] : i \in WalkerIx} \subseteq {id_walkers[i] : i \in WalkerIx}
         /\ \A i \in WalkerIx : \E j \in WalkerIx : states'[i] = states[j])]_vars

\* after a balance a walker holds the id and the state of a companion, and
\* fewer distinct ids are left than there are walkers
C38_Witness ==
    /\ AfterBalance
    /\ \E i \in WalkerIx :
          /\ will_clone[i] /\ compas_clone[i] # i
          /\ id_walkers[i] = id_walkers[compas_clone[i]]
    /\ Cardinality({id_walkers[i] : i \in WalkerIx}) < NWalkers
    /\ Cardinality({id_walkers[i] : i \in WalkerIx}) > 1

\* C34: a worker that takes the oldest request of its pipe appends exactly
\* one reply, a RESULT or an EXCEPTION, behind the replies it sent before
\* when the request is an ACCESS or a CALL, and appends nothing when it is a
\* CLOSE; a reply appears only in a step that takes a request, so the
\* replies leave in the order the requests arrived.
C34_OneReplyPerRequest ==
    [][\A w \in WorkerIx :
        /\ (to_worker[w] # <<>> /\ to_worker'[w] = Tail(to_worker[w])) =>
              (IF Head(to_worker[w]).type \in {ACCESS, CALL}
               THEN /\ Len(to_parent'[w]) = Len(to_parent[w]) + 1
                    /\ SubSeq(to_parent'[w], 1, Len(to_parent[w])) = to_parent[w]
                    /\ to_parent'[w][Len(to_parent'[w])].type \in {RESULT, EXCEPTION}
               ELSE (Head(to_worker[w]).type = CLOSE => to_parent'[w] = to_parent[w]))
        /\ (Len(to_parent'[w]) > Len(to_parent[w])) =>
              (to_worker[w] # <<>> /\ to_worker'[w] = Tail(to_worker[w]))
      ]_vars

\* a worker has left its loop on a CLOSE without a reply while the RESULT of
\* another worker waits in its pipe
C34_Witness ==
    \E w, v \in WorkerIx :
        /\ w < b_nw /\ ~w_alive[w] /\ w_exc[w] = 0
        /\ to_worker[w] = <<>> /\ to_parent[w] = <<>>
        /\ v < b_nw /\ to_parent[v] # <<>> /\ Head(to_parent[v]).type = RESULT

\* C35: with blocking (each worker called and awaited in turn) and without
\* (all CALLs sent, then all replies awaited) a batch call on open workers
\* that have not failed returns the same merged result for the same inputs: when
\* no chunk makes the environment raise, the call returns the merged rows
\* of the chunks, which depend on the inputs and the number of workers only.
C35_BlockingEqualsNonBlocking ==
    (/\ b_pc = "returned" /\ b_out.kind \in {"merged", "error"}
     /\ ~b_closed /\ \A w \in WorkerIx : w_exc[w] = 0
     /\ \A w \in 0 .. (b_nw - 1) : ~env_raises(split_inputs_in_chunks(b_in, b_nw)[w])) =>
        b_out = [kind |-> "merged",
                 data |-> merge_data([k \in 1 .. b_nw |->
                              env_make_transitions(split_inputs_in_chunks(b_in, b_nw)[k - 1])]),
                 trace |-> None]

\* a blocking batch over several workers has returned the merged rows of
\* walkers with different actions
C35_Witness ==
    /\ ReturnsMerged /\ b_blocking
    /\ b_nw > 1
    /\ b_in[0] # b_in[NWalkers - 1]
    /\ b_out.data.states[1] # b_out.data.states[NWalkers]

\* C31: misconfiguration is fatal at construction, before any sampling:
\* BinarySwap with n_swaps <= 0 raises, a discrete model with neither
\* n_actions nor env raises, a continuous model with neither bounds nor
\* env.bounds raises; BinarySwap with n_swaps = None and a known n_actions
\* is accepted and its n_swaps is n_actions.
C31_MisconfigurationFatal ==
    /\ sw_new.raised # "not called" =>
          /\ (sw_new.n_swaps # Absent /\ sw_new.n_swaps[1] <= 0) => sw_new.raised # "no"
          /\ (sw_new.n_actions = Absent /\ sw_new.env = Absent) => sw_new.raised # "no"
          /\ (sw_new.n_swaps = Absent /\ ~(sw_new.n_actions = Absent /\ sw_new.env = Absent)) =>
                (sw_new.raised = "no" /\ sw_pc \in {"ready", "sampled"} /\ n_swaps = n_actions)
          /\ sw_new.raised # "no" => sw_pc = "new"
    /\ cm_new.raised # "not called" =>
          ((cm_new.bounds = Absent /\ cm_new.env \in {Absent, <<"no attribute">>})
              => cm_new.raised # "no")

\* C32: Vector.assign_region(other) returns 1 exactly when
\* (end - origin) . (end - other) is strictly positive and 0 otherwise, a
\* zero product included, and it does not change the vector.
C32_AssignRegion ==
    [][VectorAssignRegion =>
         /\ v_region' = IF np_dot(np_sub(v_vec.end, v_vec.origin),
                                   np_sub(v_vec.end, v_other')) > 0 THEN 1 ELSE 0
         /\ v_vec' = v_vec]_vars

\* a call with other = end on a vector whose base is not zero: the product
\* is zero and the region returned is 0
C32_Witness ==
    /\ v_pc = "assigned" /\ v_other = v_vec.end /\ v_region = 0
    /\ v_vec.base # <<0, 0>>

\* C39 (as stated): after any sequence of append, append_vector and
\* update_bases the encoder holds at most n_vectors vectors; an append or
\* append_vector to a full encoder returns with the oldest vector evicted,
\* the others in their order and the new vector last.
C39_FullAppendEvictsOldest ==
    /\ e_pc = "ready" => Len(e_vectors) <= n_vectors
    /\ (e_call.op \in {"append", "append_vector"} /\ Len(e_call.before) = n_vectors) =>
          (e_call.raised = "no" /\ e_vectors = py_rest(e_call.before) \o e_call.arg)

\* C39 (amended): the same for encoders with n_vectors >= 1; update_bases
\* only fills free places with the chosen vectors in their order; an
\* encoder with n_vectors = 0 stays empty and its appends raise IndexError.
C39_BoundedAndEvictsOldest ==
    /\ e_pc = "ready" => Len(e_vectors) <= n_vectors
    /\ (e_call.op \in {"append", "append_vector"} /\ Len(e_call.before) = n_vectors
          /\ n_vectors >= 1) =>
          (e_call.raised = "no" /\ e_vectors = py_rest(e_call.before) \o e_call.arg)
    /\ (e_call.op \in {"append", "append_vector"} /\ Len(e_call.before) < n_vectors) =>
          (e_call.raised = "no" /\ e_vectors = e_call.before \o e_call.arg)
    /\ e_call.op = "update_bases" =>
          (e_call.raised = "no" /\ e_vectors = e_call.before \o e_call.arg)
    /\ (e_call.op \in {"append", "append_vector"} /\ n_vectors = 0) =>
          (e_call.raised = "IndexError" /\ e_vectors = << >>)

\* an append to a full encoder of two different vectors
C39_Witness ==
    /\ e_call.op = "append" /\ n_vectors >= 2
    /\ Len(e_call.before) = n_vectors
    /\ e_call.before[1] # e_call.before[2]
    /\ e_vectors[Len(e_vectors)] = e_call.arg[1]

TypeOK ==
    /\ pc \in {"reset", "policy", "env", "update_best", "balance", "virtual_reward",
               "end_check", "fix_best", "done"}
    /\ n_iters \in 0 .. MaxIters
    /\ \A i \in WalkerIx : compas_clone[i] \in WalkerIx

====
